---- MODULE Spec2Model ----
(***************************************************************************)
(* csv-async: the asynchronous CSV reader (src/src/async_reader.rs).       *)
(*                                                                         *)
(* The model is byte level.  The input is a short sequence of bytes, the   *)
(* byte source hands it to the BufReader in chunks of arbitrary size, the  *)
(* tokenizer (csv_core, an external collaborator) is fed the buffered      *)
(* bytes one loop iteration at a time, and every public operation of       *)
(* AsyncReader is an action.  An operation that awaits byte availability   *)
(* is an in-flight future (variable fut); one Poll step runs one iteration *)
(* of the loop of read_byte_record_impl and everything synchronous that    *)
(* follows it.                                                             *)
(***************************************************************************)
EXTENDS Integers, Sequences, FiniteSets, TLC

\* ------------------------------------------------------------------ bounds
\* Largest number of bytes the byte source delivers in one fill.
MaxChunk == 2
\* Largest number of seek calls in one behaviour.
MaxSeeks == 1
\* Largest number of seek_raw calls in one behaviour.
MaxRawSeeks == 1
\* Largest number of manual header overrides in one behaviour.
MaxOverrides == 1
\* Largest number of dropped (cancelled) reads in one behaviour.
MaxDrops == 1
MaxReplacements == 2
MaxStreams == 2
MaxFails == 1

\* ----------------------------------------------------------------- inputs
\* Bytes: "h" "a" "b" "c" are data bytes, "," is the delimiter, "\n" the
\* terminator, " " is ASCII whitespace.
NL == "\n"
DELIM == ","
SPACE == " "

\* Row 1 has two fields where row 0 has one; row 2 has one again.
DataUnequal == <<"h", NL, "a", DELIM, "b", NL, "c">>
\* Whitespace around the fields, a blank line, a final terminator.
DataSpaces == <<SPACE, "h", NL, NL, "a", SPACE, NL>>
\* Two fields per row, the first row as long as a fresh field store.
DataWide == <<"h", "h", DELIM, "h", "h", NL, "a", DELIM, "b">>
\* No bytes at all.
DataEmpty == <<>>

\* Row 0 is not UTF-8 in its second field; two rows follow it.
DataInvalidUtf8 == <<"h", DELIM, "xFF", NL, "a", DELIM, "b", NL, "c", DELIM, "d">>

\* One row of five fields and seven field bytes, more than a store holds
\* after its first growth, and no terminator; and the same row terminated
\* and followed by a row of one field.
DataGrow == <<"a", "b", DELIM, "c", DELIM, "d", DELIM, "e", DELIM, "f", "g">>
DataGrowNL == DataGrow \o <<NL, "h">>
\* One row of five fields that ends, unterminated, on its fourth delimiter:
\* the source is at its end when the end store of a fresh record is full.
DataTrailing == <<"a", DELIM, DELIM, DELIM, DELIM>>

Inputs == {DataUnequal, DataSpaces, DataWide, DataEmpty}
\* The inputs read under a trim policy other than None: those with
\* whitespace to trim, and the empty one.
TrimInputs == {DataSpaces, DataEmpty}

Min(S) == CHOOSE x \in S : \A y \in S : x <= y
Max(S) == CHOOSE x \in S : \A y \in S : x >= y

\* --------------------------------------------------------------- Position
NewPosition == [byte |-> 0, line |-> 1, record |-> 0]
\* A record that carries no Position (Option::None).
NoPos == [byte |-> -1, line |-> -1, record |-> -1]

\* ------------------------------------------------- reference row structure
\* The rows of a whole input, computed without the tokenizer: the input is
\* cut at the terminators, empty lines are no rows, a row is cut at the
\* delimiters.  RowReadStart(d, k) is the byte offset at which the read of
\* row k starts: right after the terminator of row k-1.
Ends(d) == {i \in 1..Len(d) : d[i] = NL} \cup {Len(d) + 1}
SegStarts(d) == {0} \cup {i \in 1..Len(d) : d[i] = NL}
SegEnd(d, s) == Min({e \in Ends(d) : e > s})
RowSegs(d) == {s \in SegStarts(d) : SegEnd(d, s) > s + 1}
NumRows(d) == Cardinality(RowSegs(d))
\* start of the k-th (0-based) non-empty line
RowSeg(d, k) == CHOOSE s \in RowSegs(d) : Cardinality({t \in RowSegs(d) : t < s}) = k
RowReadStart(d, k) == IF k = 0 THEN 0 ELSE Min({SegEnd(d, RowSeg(d, k - 1)), Len(d)})
RowLine(d, k) == 1 + Cardinality({i \in 1..RowReadStart(d, k) : d[i] = NL})
RowPos(d, k) == [byte |-> RowReadStart(d, k), line |-> RowLine(d, k), record |-> k]

RECURSIVE SplitFields(_)
SplitFields(s) ==
    IF \A i \in 1..Len(s) : s[i] # DELIM THEN <<s>>
    ELSE LET i == Min({j \in 1..Len(s) : s[j] = DELIM})
         IN  <<SubSeq(s, 1, i - 1)>> \o SplitFields(SubSeq(s, i + 1, Len(s)))
RowFields(d, k) ==
    LET s == RowSeg(d, k) IN SplitFields(SubSeq(d, s + 1, SegEnd(d, s) - 1))
\* index of the row whose read starts at byte offset o, -1 if there is none
RowAt(d, o) ==
    IF \E k \in 0..(NumRows(d) - 1) : RowReadStart(d, k) = o
    THEN CHOOSE k \in 0..(NumRows(d) - 1) : RowReadStart(d, k) = o
    ELSE -1

\* ------------------------------------------------------------ whitespace
RECURSIVE TrimLeft(_)
TrimLeft(f) == IF Len(f) > 0 /\ f[1] = SPACE THEN TrimLeft(Tail(f)) ELSE f
RECURSIVE TrimRight(_)
TrimRight(f) ==
    IF Len(f) > 0 /\ f[Len(f)] = SPACE THEN TrimRight(SubSeq(f, 1, Len(f) - 1)) ELSE f
TrimField(f) == TrimRight(TrimLeft(f))
TrimFields(fs) == [i \in 1..Len(fs) |-> TrimField(fs[i])]

\* ------------------------------------------------------------- tokenizer
\* csv_core::Reader as the reader uses it: a DFA over the bytes, fed a slice
\* of input and the spare parts of the two output stores, returning one of
\* five results and the numbers of bytes read, bytes written and field ends
\* written.  Quoting, comments and CRLF are not exercised by the inputs.
\*   dfa_state   "StartRecord": between rows; "InField": inside a field;
\*               "EndFieldDelim": right after a delimiter (final for a field);
\*               "EndRecord": right after a terminator (final for a row)
\*   line        running line counter
\*   output_pos  field bytes written for the current row by earlier calls
CoreNew == [dfa_state |-> "StartRecord", line |-> 1, output_pos |-> 0]

CoreReset(core) == CoreNew
CoreSetLine(core, line) == [core EXCEPT !.line = line]

IsStart(s) == s \in {"StartRecord", "EndRecord"}
IsFinalField(s) == s \in {"EndFieldDelim", "EndRecord"}
IsFinalRecord(s) == s = "EndRecord"

\* One DFA transition: the next state and whether the byte is copied out.
DfaGetOutput(s, c) ==
    IF IsStart(s)
    THEN IF c = NL THEN [state |-> "StartRecord", has_out |-> FALSE]
         ELSE IF c = DELIM THEN [state |-> "EndFieldDelim", has_out |-> FALSE]
         ELSE [state |-> "InField", has_out |-> TRUE]
    ELSE IF c = NL THEN [state |-> "EndRecord", has_out |-> FALSE]
         ELSE IF c = DELIM THEN [state |-> "EndFieldDelim", has_out |-> FALSE]
         ELSE [state |-> "InField", has_out |-> TRUE]

\* The scanning loop of one call: stops when the input, the spare field
\* bytes or the spare ends run out, or right after a row is complete.
\* The scan a after the byte c took the transition t.
DfaStep(a, c, t, output_pos) ==
    [state |-> t.state, line |-> a.line + (IF c = NL THEN 1 ELSE 0), nin |-> a.nin + 1,
     out |-> IF t.has_out THEN Append(a.out, c) ELSE a.out,
     ends |-> IF IsFinalField(t.state)
              THEN Append(a.ends, output_pos + Len(a.out) + (IF t.has_out THEN 1 ELSE 0))
              ELSE a.ends]

RECURSIVE DfaLoop(_, _, _, _, _)
DfaRest(input, ocap, ecap, output_pos, b) ==
    IF IsFinalRecord(b.state) THEN b ELSE DfaLoop(input, ocap, ecap, output_pos, b)
DfaLoop(input, ocap, ecap, output_pos, a) ==
    IF a.nin < Len(input) /\ Len(a.out) < ocap /\ Len(a.ends) < ecap
    THEN DfaRest(input, ocap, ecap, output_pos,
                 DfaStep(a, input[a.nin + 1], DfaGetOutput(a.state, input[a.nin + 1]),
                         output_pos))
    ELSE a

NewReadRecordResult(s, is_final_trans, inpdone, outdone, endsdone) ==
    IF IsFinalRecord(s) THEN "Record"
    ELSE IF is_final_trans /\ IsStart(s) THEN "End"
    ELSE IF ~inpdone /\ outdone THEN "OutputFull"
    ELSE IF ~inpdone /\ endsdone THEN "OutputEndsFull"
    ELSE "InputEmpty"

\* At end of input a pending row is completed, otherwise the DFA rests.
TransitionFinalDfa(s) == IF IsStart(s) THEN "StartRecord" ELSE "EndRecord"

\* core.read_record(input, output, ends), output and ends given by their
\* spare capacities ocap and ecap.
\* The call that wrote nothing and ends with res.
CoreNothing(core, res) == [core |-> core, res |-> res, nin |-> 0, out |-> <<>>, ends |-> <<>>]
\* The call on an empty input (the end of the source): s is the state the
\* DFA rests in, res the result.
CoreReadFinal(core, ecap, s, res) ==
    IF res = "Record"
    THEN IF ecap = 0 THEN CoreNothing(core, "OutputEndsFull")
         ELSE [core |-> [core EXCEPT !.dfa_state = s, !.output_pos = 0],
               res |-> res, nin |-> 0, out |-> <<>>, ends |-> <<core.output_pos>>]
    ELSE CoreNothing([core EXCEPT !.dfa_state = s], res)
\* The call after the scan a that ends with res.
CoreReadScanned(core, a, res) ==
    [core |-> [dfa_state |-> a.state, line |-> a.line,
               output_pos |-> IF res = "Record" THEN 0 ELSE core.output_pos + Len(a.out)],
     res |-> res, nin |-> a.nin, out |-> a.out, ends |-> a.ends]
CoreReadScan(core, input, ocap, ecap, a) ==
    CoreReadScanned(core, a,
                    NewReadRecordResult(a.state, FALSE, a.nin >= Len(input),
                                        Len(a.out) >= ocap, Len(a.ends) >= ecap))
CoreReadRecord(core, input, ocap, ecap) ==
    IF Len(input) = 0
    THEN CoreReadFinal(core, ecap, TransitionFinalDfa(core.dfa_state),
                       NewReadRecordResult(TransitionFinalDfa(core.dfa_state),
                                           TRUE, FALSE, FALSE, FALSE))
    ELSE IF ocap = 0 THEN CoreNothing(core, "OutputFull")
    ELSE IF ecap = 0 THEN CoreNothing(core, "OutputEndsFull")
    ELSE CoreReadScan(core, input, ocap, ecap,
                      DfaLoop(input, ocap, ecap, core.output_pos,
                              [state |-> core.dfa_state, line |-> core.line,
                               nin |-> 0, out |-> <<>>, ends |-> <<>>]))

\* ------------------------------------------------------------ ByteRecord
\* A record under construction: the two stores at their full capacity (a
\* fresh store is filled with zero bytes), the number of fields, the
\* Position, and origin, the byte offset of the source at which the read
\* that filled the record started (-1 for a record the caller built).
ZERO == "0"
\* Smallest size a store grows to.
MinGrow == 4

ByteRecordNew == [fields |-> <<>>, ends |-> <<>>, len |-> 0, pos |-> NoPos, origin |-> -1]
RecClear(rec) == [rec EXCEPT !.len = 0]
RecSetPosition(rec, pos) == [rec EXCEPT !.pos = pos]
RecSetLen(rec, n) == [rec EXCEPT !.len = n]
RecExpandFields(rec) ==
    LET n == Max({MinGrow, 2 * Len(rec.fields)})
    IN  [rec EXCEPT !.fields = [i \in 1..n |-> IF i <= Len(rec.fields) THEN rec.fields[i] ELSE ZERO]]
RecExpandEnds(rec) ==
    LET n == Max({MinGrow, 2 * Len(rec.ends)})
    IN  [rec EXCEPT !.ends = [i \in 1..n |-> IF i <= Len(rec.ends) THEN rec.ends[i] ELSE 0]]
\* Write the tokenizer's output after what earlier calls wrote.
RecWrite(rec, outlen, endlen, out, ends) ==
    [rec EXCEPT
       !.fields = [i \in 1..Len(rec.fields) |->
                     IF i > outlen /\ i <= outlen + Len(out) THEN out[i - outlen] ELSE rec.fields[i]],
       !.ends = [i \in 1..Len(rec.ends) |->
                     IF i > endlen /\ i <= endlen + Len(ends) THEN ends[i - endlen] ELSE rec.ends[i]]]

\* What a caller sees of a record: its fields, Position and origin.  A byte
\* beyond the field store (a range the ends do not justify) reads as "!".
RecByte(rec, j) == IF j >= 1 /\ j <= Len(rec.fields) THEN rec.fields[j] ELSE "!"
RecField(rec, i) ==
    LET lo == IF i = 1 THEN 0 ELSE rec.ends[i - 1]
        hi == rec.ends[i]
    IN  [j \in 1..(hi - lo) |-> RecByte(rec, lo + j)]
View(rec) == [fields |-> [i \in 1..rec.len |-> RecField(rec, i)],
              pos |-> rec.pos, origin |-> rec.origin]
EmptyView == [fields |-> <<>>, pos |-> NoPos, origin |-> -1]
\* ByteRecord::trim: nothing to do for a record without fields.
ViewTrim(v) == [v EXCEPT !.fields = TrimFields(v.fields)]

\* UTF-8: the byte XFF is never valid.
XFF == "xFF"
Utf8Valid(f) == \A j \in 1..Len(f) : f[j] # XFF
\* StringRecord::from_byte_record: ok, or the index of the first bad field.
FromByteRecord(v) ==
    IF \A i \in 1..Len(v.fields) : Utf8Valid(v.fields[i])
    THEN [ok |-> TRUE, field |-> 0]
    ELSE [ok |-> FALSE,
          field |-> Min({i \in 1..Len(v.fields) : ~Utf8Valid(v.fields[i])}) - 1]

\* ----------------------------------------------------------- ReaderState
TrimPolicies == {"None", "Headers", "Fields", "All"}
should_trim_fields(trim) == trim \in {"Fields", "All"}
should_trim_headers(trim) == trim \in {"Headers", "All"}

NoHeaders == [some |-> FALSE, byte_record |-> EmptyView,
              string_record |-> [ok |-> TRUE, field |-> 0]]
\* first_field_count: -1 is None.
ReaderStateNew(has_headers, flexible, trim) ==
    [headers |-> NoHeaders, has_headers |-> has_headers, flexible |-> flexible,
     trim |-> trim, first_field_count |-> -1, cur_pos |-> NewPosition,
     first |-> FALSE, seeked |-> FALSE, eof |-> FALSE]

NoErr == [pos |-> NoPos, expected |-> 0, len |-> 0, field |-> 0]

\* The record index is a u64.  The model gives it RecordBits bits, which
\* keeps its largest value within the integers of the model checker.
RecordBits == 4
RecordMax == 2^RecordBits - 1
\* u64::checked_add: -1 is None.
checked_add(i, k) == IF i + k > RecordMax THEN -1 ELSE i + k
\* The panic of unwrap on None, in place of an error value.
Unwrapped == [NoErr EXCEPT !.field = -1]

\* add_record as it would be if the record index wrapped around.
add_record_wrapping(st, rec) ==
    LET st1 == [st EXCEPT !.cur_pos.record = (@ + 1) % (RecordMax + 1)]
    IN  IF ~st.flexible
        THEN IF st.first_field_count = -1
             THEN [st |-> [st1 EXCEPT !.first_field_count = rec.len], ok |-> TRUE, err |-> NoErr]
             ELSE IF rec.len # st.first_field_count
                  THEN [st |-> st1, ok |-> FALSE,
                        err |-> [pos |-> rec.pos, expected |-> st.first_field_count,
                                 len |-> rec.len, field |-> 0]]
                  ELSE [st |-> st1, ok |-> TRUE, err |-> NoErr]
        ELSE [st |-> st1, ok |-> TRUE, err |-> NoErr]

\* add_record as it would be if it validated the width whatever flexible
\* says.
add_record_strict(st, rec) ==
    LET st1 == [st EXCEPT !.cur_pos.record = @ + 1]
    IN  IF st.first_field_count = -1
        THEN [st |-> [st1 EXCEPT !.first_field_count = rec.len], ok |-> TRUE, err |-> NoErr]
        ELSE IF rec.len # st.first_field_count
             THEN [st |-> st1, ok |-> FALSE,
                   err |-> [pos |-> rec.pos, expected |-> st.first_field_count,
                            len |-> rec.len, field |-> 0]]
             ELSE [st |-> st1, ok |-> TRUE, err |-> NoErr]

\* add_record as it would be if the expected width followed the latest row.
add_record_latest(st, rec) ==
    LET st1 == [st EXCEPT !.cur_pos.record = @ + 1, !.first_field_count = rec.len]
    IN  IF ~st.flexible /\ st.first_field_count # -1 /\ rec.len # st.first_field_count
        THEN [st |-> st1, ok |-> FALSE,
              err |-> [pos |-> rec.pos, expected |-> st.first_field_count,
                       len |-> rec.len, field |-> 0]]
        ELSE [st |-> IF st.flexible THEN [st EXCEPT !.cur_pos.record = @ + 1] ELSE st1,
              ok |-> TRUE, err |-> NoErr]

\* add_record as it would be if a row of the wrong width were not counted.
add_record_uncounted(st, rec) ==
    LET st1 == [st EXCEPT !.cur_pos.record = @ + 1]
    IN  IF ~st.flexible
        THEN IF st.first_field_count = -1
             THEN [st |-> [st1 EXCEPT !.first_field_count = rec.len], ok |-> TRUE, err |-> NoErr]
             ELSE IF rec.len # st.first_field_count
                  THEN [st |-> st, ok |-> FALSE,
                        err |-> [pos |-> rec.pos, expected |-> st.first_field_count,
                                 len |-> rec.len, field |-> 0]]
                  ELSE [st |-> st1, ok |-> TRUE, err |-> NoErr]
        ELSE [st |-> st1, ok |-> TRUE, err |-> NoErr]

\* add_record as it would be if a row of the wrong width became the new
\* expected width.
add_record_rewidening(st, rec) ==
    LET st1 == [st EXCEPT !.cur_pos.record = @ + 1]
    IN  IF ~st.flexible
        THEN IF st.first_field_count = -1
             THEN [st |-> [st1 EXCEPT !.first_field_count = rec.len], ok |-> TRUE, err |-> NoErr]
             ELSE IF rec.len # st.first_field_count
                  THEN [st |-> [st1 EXCEPT !.first_field_count = rec.len], ok |-> FALSE,
                        err |-> [pos |-> rec.pos, expected |-> st.first_field_count,
                                 len |-> rec.len, field |-> 0]]
                  ELSE [st |-> st1, ok |-> TRUE, err |-> NoErr]
        ELSE [st |-> st1, ok |-> TRUE, err |-> NoErr]

\* ReaderState::add_record: count the row, with the overflow check whose
\* failure panics before anything is written, then validate its width.
add_record(st, rec) ==
    LET i == checked_add(st.cur_pos.record, 1)
        st1 == [st EXCEPT !.cur_pos.record = i]
    IN  IF i = -1 THEN [st |-> st, ok |-> FALSE, err |-> Unwrapped]
        ELSE IF ~st.flexible
        THEN IF st.first_field_count = -1
             THEN [st |-> [st1 EXCEPT !.first_field_count = rec.len], ok |-> TRUE, err |-> NoErr]
             ELSE IF rec.len # st.first_field_count
                  THEN [st |-> st1, ok |-> FALSE,
                        err |-> [pos |-> rec.pos, expected |-> st.first_field_count,
                                 len |-> rec.len, field |-> 0]]
                  ELSE [st |-> st1, ok |-> TRUE, err |-> NoErr]
        ELSE [st |-> st1, ok |-> TRUE, err |-> NoErr]

\* set_headers_impl as it would be if a row that is not UTF-8 were dropped
\* from the cache.
set_headers_impl_discarding(st, v, is_string) ==
    LET str == IF is_string THEN [ok |-> TRUE, field |-> 0] ELSE FromByteRecord(v)
        bytes == IF should_trim_headers(st.trim) THEN ViewTrim(v) ELSE v
    IN  [st EXCEPT !.headers = [some |-> TRUE,
                                byte_record |-> IF str.ok THEN bytes
                                                ELSE [bytes EXCEPT !.fields = <<>>],
                                string_record |-> str]]

\* AsyncReader::set_headers_impl: headers is a string row (is_string) or a
\* byte row; the other form is derived, both are trimmed under Headers/All.
set_headers_impl(st, v, is_string) ==
    LET str == IF is_string THEN [ok |-> TRUE, field |-> 0] ELSE FromByteRecord(v)
        bytes == IF should_trim_headers(st.trim) THEN ViewTrim(v) ELSE v
    IN  [st EXCEPT !.headers = [some |-> TRUE, byte_record |-> bytes, string_record |-> str]]

\* ------------------------------------------------------ in-flight futures
\* op     the public operation awaiting; "none" when no future is in flight
\* stage  which call of read_byte_record_impl is running: "hdr" (from
\*        byte_headers/headers/seek), "first" or "second" (from
\*        read_byte_record)
\* rec, outlen, endlen   the record being filled and the loop's counters
\* pos0, eof0   the reader's position and its eof flag when the call started
\* polled the call has polled the byte source (FillBuf)
\* pos, from   the arguments of seek / seek_raw
\* fail   the source answers the physical seek of this call with an error
NoFut == [op |-> "none", stage |-> "none", rec |-> ByteRecordNew,
          outlen |-> 0, endlen |-> 0, pos0 |-> NoPos, eof0 |-> FALSE, polled |-> FALSE,
          pos |-> NoPos, from |-> 0, fail |-> FALSE]
\* What the last call returned: the operation, the kind of result ("row",
\* "end", "headers", "unit", or the error "width" / "utf8"), the record
\* handed back, the error's payload, the Position argument of the call,
\* eof as it was when the call started, and whether the call polled the
\* byte source.
NoRet == [op |-> "none", kind |-> "none", rec |-> EmptyView, err |-> NoErr, arg |-> NoPos,
          eof0 |-> FALSE, polled |-> FALSE]

RowReadOps == {"read_record", "read_byte_record"}
HeaderOps == {"headers", "byte_headers"}
SeekOps == {"seek", "seek_raw"}

\* A call returns: the future is gone and ret holds what the caller got.
Done(w, kind, v, err) ==
    [w EXCEPT !.fut = NoFut,
              !.ret = [op |-> w.fut.op, kind |-> kind, rec |-> v, err |-> err,
                       arg |-> w.fut.pos, eof0 |-> w.fut.eof0, polled |-> w.fut.polled]]

\* AsyncReader::read_record around read_byte_record (StringRecord::read):
\* a row that is not UTF-8 is wiped and reported, and the row is trimmed
\* once more whatever the result.
ReadDone(w, kind, v, err) ==
    IF w.fut.op # "read_record" THEN Done(w, kind, v, err)
    ELSE LET u == FromByteRecord(v)
             v1 == IF u.ok THEN v ELSE [v EXCEPT !.fields = <<>>]
             v2 == IF should_trim_fields(w.state.trim) THEN ViewTrim(v1) ELSE v1
         IN  IF kind = "width" \/ u.ok THEN Done(w, kind, v2, err)
             ELSE Done(w, "utf8", v2, [NoErr EXCEPT !.pos = w.fut.pos0, !.field = u.field])

\* read_byte_record_impl up to its loop: clear, stamp, look at eof.
ImplBegin(w, frame, stage) ==
    [w EXCEPT !.fut = [frame EXCEPT
        !.stage = stage, !.outlen = 0, !.endlen = 0,
        !.rec = [RecSetPosition(RecClear(frame.rec), w.state.cur_pos)
                   EXCEPT !.origin = w.rdr.off]]]

\* consume as it would be if the whole buffer were marked read.
consume_all(r, amt) == [r EXCEPT !.off = r.fill]

\* The BufReader's consume(amt) in the loop of read_byte_record_impl.
consume(r, amt) == [r EXCEPT !.off = @ + amt]

\* One iteration of the loop of read_byte_record_impl, FillBuf having
\* resolved after the source delivered n more bytes (0: bytes were already
\* buffered, or the source is at its end).  res is "continue" or the
\* result of the call: "row", "end" or "width".
\* The Record arm: a is what add_record made of the row.
ImplRecord(w, a) ==
    [w |-> [w EXCEPT !.state = a.st],
     res |-> IF a.ok THEN "row" ELSE IF a.err = Unwrapped THEN "panic" ELSE "width",
     err |-> a.err]
\* ImplMatch as it would be if a full field store were not grown.
ImplMatchNotGrowing(w, res) ==
    CASE res = "InputEmpty" -> [w |-> w, res |-> "continue", err |-> NoErr]
      [] res = "OutputFull" -> [w |-> w, res |-> "continue", err |-> NoErr]
      [] res = "OutputEndsFull" ->
            [w |-> [w EXCEPT !.fut.rec = RecExpandEnds(@)], res |-> "continue", err |-> NoErr]
      [] res = "Record" ->
            ImplRecord([w EXCEPT !.fut.rec = RecSetLen(@, w.fut.endlen)],
                       add_record(w.state, RecSetLen(w.fut.rec, w.fut.endlen)))
      [] res = "End" ->
            [w |-> [w EXCEPT !.state.eof = TRUE], res |-> "end", err |-> NoErr]
\* ImplMatch as it would be if each full store made the other one grow.
ImplMatchGrowingOther(w, res) ==
    CASE res = "InputEmpty" -> [w |-> w, res |-> "continue", err |-> NoErr]
      [] res = "OutputFull" ->
            [w |-> [w EXCEPT !.fut.rec = RecExpandEnds(@)], res |-> "continue", err |-> NoErr]
      [] res = "OutputEndsFull" ->
            [w |-> [w EXCEPT !.fut.rec = RecExpandFields(@)], res |-> "continue", err |-> NoErr]
      [] res = "Record" ->
            ImplRecord([w EXCEPT !.fut.rec = RecSetLen(@, w.fut.endlen)],
                       add_record(w.state, RecSetLen(w.fut.rec, w.fut.endlen)))
      [] res = "End" ->
            [w |-> [w EXCEPT !.state.eof = TRUE], res |-> "end", err |-> NoErr]
\* ImplMatch as it would be if a completed row set eof.
ImplMatchEofOnRecord(w, res) ==
    CASE res = "InputEmpty" -> [w |-> w, res |-> "continue", err |-> NoErr]
      [] res = "OutputFull" ->
            [w |-> [w EXCEPT !.fut.rec = RecExpandFields(@)], res |-> "continue", err |-> NoErr]
      [] res = "OutputEndsFull" ->
            [w |-> [w EXCEPT !.fut.rec = RecExpandEnds(@)], res |-> "continue", err |-> NoErr]
      [] res = "Record" ->
            ImplRecord([w EXCEPT !.fut.rec = RecSetLen(@, w.fut.endlen), !.state.eof = TRUE],
                       add_record([w.state EXCEPT !.eof = TRUE], RecSetLen(w.fut.rec, w.fut.endlen)))
      [] res = "End" ->
            [w |-> [w EXCEPT !.state.eof = TRUE], res |-> "end", err |-> NoErr]
\* The match on the tokenizer's result res, the world w already holding
\* what the call wrote and consumed.
ImplMatch(w, res) ==
    CASE res = "InputEmpty" -> [w |-> w, res |-> "continue", err |-> NoErr]
      [] res = "OutputFull" ->
            [w |-> [w EXCEPT !.fut.rec = RecExpandFields(@)], res |-> "continue", err |-> NoErr]
      [] res = "OutputEndsFull" ->
            [w |-> [w EXCEPT !.fut.rec = RecExpandEnds(@)], res |-> "continue", err |-> NoErr]
      [] res = "Record" ->
            ImplRecord([w EXCEPT !.fut.rec = RecSetLen(@, w.fut.endlen)],
                       add_record(w.state, RecSetLen(w.fut.rec, w.fut.endlen)))
      [] res = "End" ->
            [w |-> [w EXCEPT !.state.eof = TRUE], res |-> "end", err |-> NoErr]
\* ImplFed as it would be if consume ran on the buffer as it was before
\* the wait for bytes resolved.
ImplFedConsumingUnfilled(w, n, t) ==
    ImplMatch([w EXCEPT !.core = t.core,
                        !.rdr = consume(w.rdr, t.nin),
                        !.state.cur_pos.byte = @ + t.nin,
                        !.state.cur_pos.line = t.core.line,
                        !.fut.rec = RecWrite(@, w.fut.outlen, w.fut.endlen, t.out, t.ends),
                        !.fut.outlen = @ + Len(t.out),
                        !.fut.endlen = @ + Len(t.ends),
                        !.fut.polled = TRUE],
              t.res)
\* ImplFed as it would be if the tokenizer were handed the whole stores
\* instead of their spare parts.
ImplFedOverwriting(w, n, t) ==
    ImplMatch([w EXCEPT !.core = t.core,
                        !.rdr = consume([w.rdr EXCEPT !.fill = @ + n], t.nin),
                        !.state.cur_pos.byte = @ + t.nin,
                        !.state.cur_pos.line = t.core.line,
                        !.fut.rec = RecWrite(@, 0, 0, t.out, t.ends),
                        !.fut.outlen = @ + Len(t.out),
                        !.fut.endlen = @ + Len(t.ends),
                        !.fut.polled = TRUE],
              t.res)
\* ImplFed as it would be if the tracked byte offset advanced by the bytes
\* written to the record instead of the bytes consumed.
ImplFedCountingOutput(w, n, t) ==
    ImplMatch([w EXCEPT !.core = t.core,
                        !.rdr = consume([w.rdr EXCEPT !.fill = @ + n], t.nin),
                        !.state.cur_pos.byte = @ + Len(t.out),
                        !.state.cur_pos.line = t.core.line,
                        !.fut.rec = RecWrite(@, w.fut.outlen, w.fut.endlen, t.out, t.ends),
                        !.fut.outlen = @ + Len(t.out),
                        !.fut.endlen = @ + Len(t.ends),
                        !.fut.polled = TRUE],
              t.res)
\* The iteration once core.read_record returned t on the reader filled by
\* n more bytes: consume, advance cur_pos, count what was written.
ImplFed(w, n, t) ==
    ImplMatch([w EXCEPT !.core = t.core,
                        !.rdr = consume([w.rdr EXCEPT !.fill = @ + n], t.nin),
                        !.state.cur_pos.byte = @ + t.nin,
                        !.state.cur_pos.line = t.core.line,
                        !.fut.rec = RecWrite(@, w.fut.outlen, w.fut.endlen, t.out, t.ends),
                        !.fut.outlen = @ + Len(t.out),
                        !.fut.endlen = @ + Len(t.ends),
                        !.fut.polled = TRUE],
              t.res)
ImplIter(d, w, n) ==
    CHOOSE x \in {ImplFed(w, n, t) :
                   t \in {CoreReadRecord(w.core, SubSeq(d, w.rdr.off + 1, w.rdr.fill + n),
                                         Len(w.fut.rec.fields) - w.fut.outlen,
                                         Len(w.fut.rec.ends) - w.fut.endlen)}} : TRUE

\* read_byte_record after its second call of read_byte_record_impl.
AfterSecond(w, res, err) ==
    LET v == View(w.fut.rec)
    IN  ReadDone(w, res, IF should_trim_fields(w.state.trim) THEN ViewTrim(v) ELSE v, err)

\* read_byte_record as it would be if it returned what its first call of
\* read_byte_record_impl read, whatever has_headers says.
AfterFirstNoSecond(w, res, err) ==
    IF res = "width" THEN ReadDone(w, res, View(w.fut.rec), err)
    ELSE LET w1 == [w EXCEPT !.state.first = TRUE]
             v == View(w.fut.rec)
         IN  IF ~w1.state.seeked /\ ~w1.state.headers.some
             THEN ReadDone([w1 EXCEPT !.state = set_headers_impl(w1.state, v, FALSE)],
                           res, v, err)
             ELSE ReadDone(w1, res,
                           IF should_trim_fields(w1.state.trim) THEN ViewTrim(v) ELSE v, err)

\* read_byte_record as it would be if it captured the headers from its
\* first row whether or not the cache is set.
AfterFirstRecapture(w, res, err) ==
    IF res = "width" THEN ReadDone(w, res, View(w.fut.rec), err)
    ELSE LET w1 == [w EXCEPT !.state.first = TRUE]
             v == View(w.fut.rec)
         IN  IF ~w1.state.seeked
             THEN LET w2 == [w1 EXCEPT !.state = set_headers_impl(w1.state, v, FALSE)]
                  IN  IF w2.state.has_headers
                      THEN LET w3 == ImplBegin(w2, w2.fut, "second")
                           IN  IF w3.state.eof THEN AfterSecond(w3, "end", NoErr) ELSE w3
                      ELSE ReadDone(w2, res, v, err)
             ELSE ReadDone(w1, res,
                           IF should_trim_fields(w1.state.trim) THEN ViewTrim(v) ELSE v, err)

\* read_byte_record after its first call of read_byte_record_impl.
AfterFirst(w, res, err) ==
    IF res = "width" THEN ReadDone(w, res, View(w.fut.rec), err)
    ELSE LET w1 == [w EXCEPT !.state.first = TRUE]
             v == View(w.fut.rec)
         IN  IF ~w1.state.seeked /\ ~w1.state.headers.some
             THEN LET w2 == [w1 EXCEPT !.state = set_headers_impl(w1.state, v, FALSE)]
                  IN  IF w2.state.has_headers
                      THEN LET w3 == ImplBegin(w2, w2.fut, "second")
                           IN  IF w3.state.eof THEN AfterSecond(w3, "end", NoErr) ELSE w3
                      ELSE ReadDone(w2, res, v, err)
             ELSE ReadDone(w1, res,
                           IF should_trim_fields(w1.state.trim) THEN ViewTrim(v) ELSE v, err)

\* The seek as it would be if it left eof as it was.
SeekToKeepEof(w, off, pos) ==
    [w EXCEPT !.rdr = [off |-> off, fill |-> off],
              !.core = CoreSetLine(CoreReset(w.core), pos.line),
              !.state.cur_pos = pos]

\* The seek as it would be if the tokenizer were reset and its line left at
\* the first line.
SeekToLineOne(w, off, pos) ==
    [w EXCEPT !.rdr = [off |-> off, fill |-> off],
              !.core = CoreReset(w.core),
              !.state.cur_pos = pos,
              !.state.eof = FALSE]

\* The header queries and seeks as they would be if seek always performed
\* the physical seek.
HdrTailAlwaysSeek(w) ==
    LET h == w.state.headers
    IN  CASE w.fut.op = "headers" ->
                IF h.string_record.ok THEN Done(w, "headers", h.byte_record, NoErr)
                ELSE Done(w, "utf8", EmptyView,
                          [NoErr EXCEPT !.pos = h.byte_record.pos, !.field = h.string_record.field])
          [] w.fut.op = "byte_headers" -> Done(w, "headers", h.byte_record, NoErr)
          [] w.fut.op \in {"seek", "seek_raw"} ->
                Done([w EXCEPT !.state.seeked = TRUE,
                               !.rdr = [off |-> w.fut.pos.byte, fill |-> w.fut.pos.byte],
                               !.core = [CoreNew EXCEPT !.line = w.fut.pos.line],
                               !.state.cur_pos = w.fut.pos,
                               !.state.eof = FALSE],
                     "unit", EmptyView, NoErr)

\* The seek as it would be if the bytes buffered before it were kept.
SeekToKeepBuffer(w, off, pos) ==
    [w EXCEPT !.core = CoreSetLine(CoreReset(w.core), pos.line),
              !.state.cur_pos = pos,
              !.state.eof = FALSE]

\* The physical seek and what follows it in seek and seek_raw.
SeekTo(w, off, pos) ==
    [w EXCEPT !.rdr = [off |-> off, fill |-> off],
              !.core = CoreSetLine(CoreReset(w.core), pos.line),
              !.state.cur_pos = pos,
              !.state.eof = FALSE]

\* The header queries and seeks as they would be if seeked were set after
\* the physical seek, with the Position.
HdrTailSeekedLate(w) ==
    LET h == w.state.headers
    IN  CASE w.fut.op = "headers" ->
                IF h.string_record.ok THEN Done(w, "headers", h.byte_record, NoErr)
                ELSE Done(w, "utf8", EmptyView,
                          [NoErr EXCEPT !.pos = h.byte_record.pos, !.field = h.string_record.field])
          [] w.fut.op = "byte_headers" -> Done(w, "headers", h.byte_record, NoErr)
          [] w.fut.op = "seek" ->
                LET w1 == [w EXCEPT !.state.seeked = TRUE]
                IN  IF w.fut.pos.byte = w.state.cur_pos.byte THEN Done(w1, "unit", EmptyView, NoErr)
                    ELSE IF w.fut.fail THEN Done(w, "io", EmptyView, NoErr)
                    ELSE Done(SeekTo(w1, w.fut.pos.byte, w.fut.pos), "unit", EmptyView, NoErr)
          [] w.fut.op = "seek_raw" ->
                IF w.fut.fail THEN Done(w, "io", EmptyView, NoErr)
                ELSE Done(SeekTo([w EXCEPT !.state.seeked = TRUE], w.fut.from, w.fut.pos),
                          "unit", EmptyView, NoErr)

\* headers, byte_headers, seek and seek_raw once the header cache is set.
\* seek and seek_raw set seeked and then await the physical seek; when the
\* source fails it the ? returns the error and nothing after it runs.
HdrTail(w) ==
    LET h == w.state.headers
    IN  CASE w.fut.op = "headers" ->
                IF h.string_record.ok THEN Done(w, "headers", h.byte_record, NoErr)
                ELSE Done(w, "utf8", EmptyView,
                          [NoErr EXCEPT !.pos = h.byte_record.pos, !.field = h.string_record.field])
          [] w.fut.op = "byte_headers" -> Done(w, "headers", h.byte_record, NoErr)
          [] w.fut.op = "seek" ->
                LET w1 == [w EXCEPT !.state.seeked = TRUE]
                IN  IF w.fut.pos.byte = w.state.cur_pos.byte THEN Done(w1, "unit", EmptyView, NoErr)
                    ELSE IF w.fut.fail THEN Done(w1, "io", EmptyView, NoErr)
                    ELSE Done(SeekTo(w1, w.fut.pos.byte, w.fut.pos), "unit", EmptyView, NoErr)
          [] w.fut.op = "seek_raw" ->
                LET w1 == [w EXCEPT !.state.seeked = TRUE]
                IN  IF w.fut.fail THEN Done(w1, "io", EmptyView, NoErr)
                    ELSE Done(SeekTo(w1, w.fut.from, w.fut.pos), "unit", EmptyView, NoErr)

\* The header queries as they would be if the row they read were handed
\* out but not kept in the header cache.
AfterHdrUncached(w, res, err) ==
    IF res = "width" THEN Done(w, res, View(w.fut.rec), err)
    ELSE [HdrTail([w EXCEPT !.state = set_headers_impl(w.state, View(w.fut.rec), FALSE)])
            EXCEPT !.state.headers = w.state.headers]

\* headers / byte_headers (also inside seek) after read_byte_record_impl.
AfterHdr(w, res, err) ==
    IF res = "width" THEN Done(w, res, View(w.fut.rec), err)
    ELSE HdrTail([w EXCEPT !.state = set_headers_impl(w.state, View(w.fut.rec), FALSE)])

\* A panic unwinds through every caller: the call is over and the record
\* is left as the loop had it.
AfterImpl(w, res, err) ==
    CASE res = "panic" -> Done(w, "panic", View(w.fut.rec), NoErr)
      [] w.fut.stage = "hdr" -> AfterHdr(w, res, err)
      [] w.fut.stage = "first" -> AfterFirst(w, res, err)
      [] w.fut.stage = "second" -> AfterSecond(w, res, err)

\* Call read_byte_record_impl from an operation.
Entered(w) == IF w.state.eof THEN AfterImpl(w, "end", NoErr) ELSE w
Enter(w, frame, stage) == Entered(ImplBegin(w, frame, stage))

\* The future is polled and FillBuf resolves with n new bytes.
Resumed(r) == IF r.res = "continue" THEN r.w ELSE AfterImpl(r.w, r.res, r.err)
Resume(d, w, n) == CHOOSE x \in {Resumed(r) : r \in {ImplIter(d, w, n)}} : TRUE

\* The failure as it would be if it ended the rows for good and handed the
\* record back without its Position.
IoFailedPoisoning(w) ==
    IF w.fut.op \in RowReadOps
    THEN Done([w EXCEPT !.state.eof = TRUE], "io", EmptyView, NoErr)
    ELSE Done([w EXCEPT !.state.eof = TRUE], "io", EmptyView, NoErr)

\* The failure as it would be if seek set seeked before it resolved the
\* headers.
IoFailedSeeked(w) ==
    IF w.fut.op \in RowReadOps THEN Done(w, "io", View(w.fut.rec), NoErr)
    ELSE IF w.fut.op \in SeekOps
    THEN Done([w EXCEPT !.state.seeked = TRUE], "io", EmptyView, NoErr)
    ELSE Done(w, "io", EmptyView, NoErr)

\* FillBuf resolves with an I/O error and the ? in read_byte_record_impl
\* hands it up through every caller: nothing after the await runs, the
\* record of a row read stays cleared and stamped.
IoFailed(w) ==
    IF w.fut.op \in RowReadOps THEN Done(w, "io", View(w.fut.rec), NoErr)
    ELSE Done(w, "io", EmptyView, NoErr)

\* ------------------------------------------------------- stream adapters
\* What poll_next handed out last: "row" is Some(Ok(record)), "width",
\* "utf8" and "io" are Some(Err(..)), "end" is None.
NoItem == [kind |-> "none", rec |-> EmptyView, err |-> NoErr]
\* A stream adapter (StringRecordsStream, StringRecordsIntoStream,
\* ByteRecordsStream, ByteRecordsIntoStream):
\*   fut     "absent": no adapter; "armed": the adapter holds a read future
\*           that was never polled; "running": it holds one that waits for
\*           bytes; "none": fut is None; "panicked": unwrap met None
\*   op      the row read its futures perform
\*   owned   the adapter owns the reader (into_records, into_byte_records)
\*   rec     the record buffer handed from one read future to the next
\*   items   items yielded so far, the end not counted
\*   last    the last result of poll_next
\*   made    read futures the adapter created so far
\*   ready   read futures of the adapter that resolved so far
\*   n       adapters created on the reader so far
NoStream == [fut |-> "absent", op |-> "none", owned |-> FALSE, rec |-> ByteRecordNew,
             items |-> 0, last |-> NoItem, made |-> 0, ready |-> 0, n |-> 0]

\* ------------------------------------------------------------------ state
VARIABLES
    data,       \* the bytes of the input
    core,       \* AsyncReader.core: the tokenizer
    rdr,        \* AsyncReader.rdr: off = source offset of the first unread
                \* buffered byte, fill = source offset the buffer is filled to
    state,      \* AsyncReader.state: ReaderState
    fut,        \* the call in flight, NoFut when the reader is idle
    ret,        \* what the last completed call returned
    nok,        \* row reads that returned a row; 0 once a seek was called
    nerr,       \* row reads that failed with a width error; 0 once a seek
                \* was called
    hist,       \* outcomes of the last two completed row reads since the
                \* last seek call
    seen,       \* rows returned by row reads so far (fields, Position,
                \* origin), kept as long as a seek can still be called
    want,       \* fields of the seen rows at the Position just sought to
    seeks,      \* number of seek calls that returned
    rawseeks,   \* number of seek_raw calls that returned
    overrides,  \* number of manual header overrides so far
    drops,      \* number of dropped reads so far
    dirty,      \* a read was dropped after it had consumed bytes
    lied,       \* a seek_raw was given a Position whose byte offset is not
                \* the offset it seeks to
    fails,      \* number of reads of the source that failed
    stream      \* the stream adapter on the reader, NoStream when there is none

vars == <<data, core, rdr, state, fut, ret, nok, nerr, hist, seen, want,
          seeks, rawseeks, overrides, drops, dirty, lied, fails, stream>>

World == [core |-> core, rdr |-> rdr, state |-> state, fut |-> fut, ret |-> ret]

NoOutcome == [kind |-> "none", origin |-> -1, pos |-> NoPos]

Init ==
    /\ data \in Inputs
    /\ core = CoreNew
    /\ rdr = [off |-> 0, fill |-> 0]
    /\ \E has_headers \in BOOLEAN, flexible \in BOOLEAN, trim \in TrimPolicies :
           /\ trim # "None" => data \in TrimInputs
           /\ state = ReaderStateNew(has_headers, flexible, trim)
    /\ fut = NoFut
    /\ ret = NoRet
    /\ nok = 0 /\ nerr = 0
    /\ hist = [last |-> NoOutcome, prev |-> NoOutcome]
    /\ seen = {}
    /\ want = {}
    /\ seeks = 0 /\ rawseeks = 0 /\ overrides = 0 /\ drops = 0
    /\ dirty = FALSE
    /\ lied = FALSE
    /\ fails = 0
    /\ stream = NoStream

\* The step to world w: the program's variables, and the bookkeeping of the
\* call that completed in this step, if one did.
Apply(w) ==
    LET completed == w.fut.op = "none"
        rowread == completed /\ w.ret.op \in RowReadOps
        counted == rowread /\ seeks + rawseeks = 0
        sought == completed /\ w.ret.op = "seek"
        seeking == w.fut.op \in SeekOps \/ (completed /\ w.ret.op \in SeekOps)
    IN
    /\ core' = w.core /\ rdr' = w.rdr /\ state' = w.state
    /\ fut' = w.fut /\ ret' = w.ret
    /\ nok' = IF seeking THEN 0
              ELSE IF counted /\ w.ret.kind = "row" THEN nok + 1 ELSE nok
    /\ nerr' = IF seeking THEN 0
               ELSE IF counted /\ w.ret.kind = "width" THEN nerr + 1 ELSE nerr
    /\ hist' = IF seeking THEN [last |-> NoOutcome, prev |-> NoOutcome]
               ELSE IF rowread
               THEN [last |-> [kind |-> w.ret.kind, origin |-> w.ret.rec.origin,
                               pos |-> w.ret.rec.pos],
                     prev |-> hist.last]
               ELSE hist
    /\ seeks' = IF sought THEN seeks + 1 ELSE seeks
    /\ rawseeks' = IF completed /\ w.ret.op = "seek_raw" THEN rawseeks + 1 ELSE rawseeks
    /\ seen' = IF sought /\ seeks + 1 >= MaxSeeks THEN {}
               ELSE IF rowread /\ w.ret.kind = "row" /\ seeks < MaxSeeks
               THEN seen \cup {w.ret.rec} ELSE seen
    /\ want' = IF sought
               THEN {r.fields : r \in {q \in seen : q.pos = w.ret.arg /\ q.origin > 0}}
               ELSE IF completed /\ (~rowread \/ ret.op # "seek") THEN {}
               ELSE want
    /\ UNCHANGED data

Idle == fut.op = "none"
\* The future of a call of op that starts now.
Frame(op) == [NoFut EXCEPT !.op = op, !.pos0 = state.cur_pos, !.eof0 = state.eof]

\* ---------------------------------------------------------------- actions
\* headers as it would be if it read a row from the source on every call.
headers_rereading ==
    /\ Idle
    /\ Apply(Enter(World, Frame("headers"), "hdr"))
    /\ UNCHANGED <<overrides, drops, dirty, lied, fails, stream>>

\* AsyncReader::headers
headers ==
    /\ Idle
    /\ LET frame == Frame("headers")
       IN  Apply(IF ~state.headers.some THEN Enter(World, frame, "hdr")
                 ELSE HdrTail([World EXCEPT !.fut = frame]))
    /\ UNCHANGED <<overrides, drops, dirty, lied, fails, stream>>

\* AsyncReader::byte_headers
byte_headers ==
    /\ Idle
    /\ LET frame == Frame("byte_headers")
       IN  Apply(IF ~state.headers.some THEN Enter(World, frame, "hdr")
                 ELSE HdrTail([World EXCEPT !.fut = frame]))
    /\ UNCHANGED <<overrides, drops, dirty, lied, fails, stream>>

\* The rows a caller overrides the headers with; they carry no Position.
OverrideRows == {[EmptyView EXCEPT !.fields = <<<<"m">>>>]}

\* AsyncReader::set_headers
set_headers ==
    /\ Idle /\ overrides < MaxOverrides
    /\ \E v \in OverrideRows :
         Apply(Done([World EXCEPT !.fut = Frame("set_headers"),
                                  !.state = set_headers_impl(state, v, TRUE)],
                    "unit", EmptyView, NoErr))
    /\ overrides' = overrides + 1
    /\ UNCHANGED <<drops, dirty, lied, fails, stream>>

\* AsyncReader::set_byte_headers
set_byte_headers ==
    /\ Idle /\ overrides < MaxOverrides
    /\ \E v \in OverrideRows :
         Apply(Done([World EXCEPT !.fut = Frame("set_byte_headers"),
                                  !.state = set_headers_impl(state, v, FALSE)],
                    "unit", EmptyView, NoErr))
    /\ overrides' = overrides + 1
    /\ UNCHANGED <<drops, dirty, lied, fails, stream>>

\* read_byte_record as it would be if replaying the cached header did not
\* set first.
read_byte_record_replaying(w, frame) ==
    LET w0 == [w EXCEPT !.fut = frame]
    IN  IF ~w.state.seeked /\ ~w.state.has_headers /\ ~w.state.first /\ w.state.headers.some
        THEN LET v == w.state.headers.byte_record
                 v1 == IF should_trim_fields(w.state.trim) THEN ViewTrim(v) ELSE v
             IN  ReadDone(w0, IF Len(v1.fields) > 0 THEN "row" ELSE "end", v1, NoErr)
        ELSE Enter(w, frame, "first")

\* read_byte_record as it would be if the replay of the cached header did
\* not look at seeked.
read_byte_record_unseeked(w, frame) ==
    LET w0 == [w EXCEPT !.fut = frame]
    IN  IF ~w.state.has_headers /\ ~w.state.first /\ w.state.headers.some
        THEN LET v == w.state.headers.byte_record
                 v1 == IF should_trim_fields(w.state.trim) THEN ViewTrim(v) ELSE v
             IN  ReadDone([w0 EXCEPT !.state.first = TRUE],
                          IF Len(v1.fields) > 0 THEN "row" ELSE "end", v1, NoErr)
        ELSE Enter(w, frame, "first")

\* read_byte_record as it would be if the replay of the cached header
\* reported a row even when the header has no fields.
read_byte_record_replaying_empty(w, frame) ==
    LET w0 == [w EXCEPT !.fut = frame]
    IN  IF ~w.state.seeked /\ ~w.state.has_headers /\ ~w.state.first /\ w.state.headers.some
        THEN LET v == w.state.headers.byte_record
                 v1 == IF should_trim_fields(w.state.trim) THEN ViewTrim(v) ELSE v
             IN  ReadDone([w0 EXCEPT !.state.first = TRUE], "row", v1, NoErr)
        ELSE Enter(w, frame, "first")

\* AsyncReader::read_byte_record on a fresh record, up to its first await.
read_byte_record_from(w, frame) ==
    LET w0 == [w EXCEPT !.fut = frame]
    IN  IF ~w.state.seeked /\ ~w.state.has_headers /\ ~w.state.first /\ w.state.headers.some
        THEN LET v == w.state.headers.byte_record
                 v1 == IF should_trim_fields(w.state.trim) THEN ViewTrim(v) ELSE v
             IN  ReadDone([w0 EXCEPT !.state.first = TRUE],
                          IF Len(v1.fields) > 0 THEN "row" ELSE "end", v1, NoErr)
        ELSE Enter(w, frame, "first")

\* AsyncReader::read_byte_record
read_byte_record ==
    /\ Idle
    /\ Apply(read_byte_record_from(World, Frame("read_byte_record")))
    /\ UNCHANGED <<overrides, drops, dirty, lied, fails, stream>>

\* AsyncReader::read_record
read_record ==
    /\ Idle
    /\ Apply(read_byte_record_from(World, Frame("read_record")))
    /\ UNCHANGED <<overrides, drops, dirty, lied, fails, stream>>

\* Positions a caller seeks to: the start of every row (the Positions the
\* rows carry), the end of the input with line and record left at their
\* initial values, and a byte inside the first row with a line and a
\* record index that fit nothing.
LiePos == [byte |-> 1, line |-> 3, record |-> 5]
SeekTargets ==
    {RowPos(data, k) : k \in 0..(NumRows(data) - 1)}
        \cup {[NewPosition EXCEPT !.byte = Len(data)], LiePos}
\* seek_raw is called with the Position of row 1 or LiePos, and seeks to
\* the byte offset of that Position or to the start of the input.
RawSeekTargets == {p \in SeekTargets : p = LiePos \/ p.record = 1}

\* AsyncReader::seek
seek ==
    /\ Idle /\ seeks < MaxSeeks
    /\ \E pos \in SeekTargets :
         LET frame == [Frame("seek") EXCEPT !.pos = pos]
         IN  Apply(IF ~state.headers.some THEN Enter(World, frame, "hdr")
                   ELSE HdrTail([World EXCEPT !.fut = frame]))
    /\ UNCHANGED <<overrides, drops, dirty, lied, fails, stream>>

\* AsyncReader::seek_raw with SeekFrom::Start(from); pos need not fit from.
seek_raw ==
    /\ Idle /\ rawseeks < MaxRawSeeks
    /\ \E pos \in RawSeekTargets : \E from \in {pos.byte, 0} :
         LET frame == [Frame("seek_raw") EXCEPT !.pos = pos, !.from = from]
         IN  /\ Apply(IF ~state.headers.some THEN Enter(World, frame, "hdr")
                      ELSE HdrTail([World EXCEPT !.fut = frame]))
             /\ lied' = (lied \/ from # pos.byte)
    /\ UNCHANGED <<overrides, drops, dirty, fails, stream>>

\* FillBuf::poll: with unread bytes buffered it resolves at once; with an
\* empty buffer the source delivers a chunk of any size, or nothing at its
\* end.
FillChoices ==
    IF rdr.off < rdr.fill \/ rdr.fill >= Len(data) THEN {0}
    ELSE 1..Min({MaxChunk, Len(data) - rdr.fill})

\* The future in flight is polled and runs to its next await or to its end.
Poll ==
    /\ ~Idle
    /\ \E n \in FillChoices : \E w \in {Resume(data, World, n)} : Apply(w)
    /\ UNCHANGED <<overrides, drops, dirty, lied, fails, stream>>

\* The caller drops a row read in flight while it waits for bytes: the
\* future and the record it was filling are gone, the reader stays as the
\* iterations that ran left it.
Drop ==
    /\ ~Idle /\ drops < MaxDrops
    /\ fut.op \in RowReadOps
    /\ rdr.off = rdr.fill
    /\ fut' = NoFut
    /\ ret' = [NoRet EXCEPT !.op = "drop", !.kind = "dropped"]
    /\ drops' = drops + 1
    /\ dirty' = (dirty \/ rdr.off # fut.rec.origin)
    /\ want' = {}
    /\ UNCHANGED <<data, core, rdr, state, nok, nerr, hist, seen, seeks, rawseeks,
                   overrides, lied, fails, stream>>

Next ==
    \/ headers
    \/ byte_headers
    \/ set_headers
    \/ set_byte_headers
    \/ read_byte_record
    \/ read_record
    \/ seek
    \/ seek_raw
    \/ Poll

Spec == Init /\ [][Next]_vars

NextCancel == Next \/ Drop

SpecCancel == Init /\ [][NextCancel]_vars

\* The future in flight is polled and the read of the source fails.
PollFail ==
    /\ ~Idle /\ fails < MaxFails
    /\ rdr.off = rdr.fill
    /\ Apply(IoFailed(World))
    /\ fails' = fails + 1
    /\ UNCHANGED <<overrides, drops, dirty, lied, stream>>

NextIo == Next \/ PollFail

\* The reader on a byte source whose reads can fail, trimming nothing,
\* on the three-row input and on the empty one.
InitIo == Init /\ data \in {DataUnequal, DataEmpty} /\ state.trim = "None"

SpecIo == InitIo /\ [][NextIo]_vars

\* The future in flight is polled while nothing is buffered and the source
\* has nothing ready: FillBuf::poll returns Pending and so does the future.
PollPending ==
    /\ ~Idle
    /\ rdr.off = rdr.fill /\ rdr.fill < Len(data)
    /\ fut' = [fut EXCEPT !.polled = TRUE]
    /\ UNCHANGED <<data, core, rdr, state, ret, nok, nerr, hist, seen, want, seeks,
                   rawseeks, overrides, drops, dirty, lied, fails, stream>>

\* The reader on a byte source that can make the caller wait and can fail,
\* with callers that query the headers, read rows, seek, and drop reads in
\* flight.
NextWait ==
    \/ headers
    \/ byte_headers
    \/ read_byte_record
    \/ read_record
    \/ seek
    \/ Poll
    \/ PollPending
    \/ PollFail
    \/ Drop

SpecWait == InitIo /\ [][NextWait]_vars

\* The reader on the input whose row 0 is not UTF-8, trimming nothing.
InitUtf8 ==
    /\ data = DataInvalidUtf8
    /\ core = CoreNew
    /\ rdr = [off |-> 0, fill |-> 0]
    /\ \E has_headers \in BOOLEAN, flexible \in BOOLEAN :
           state = ReaderStateNew(has_headers, flexible, "None")
    /\ fut = NoFut
    /\ ret = NoRet
    /\ nok = 0 /\ nerr = 0
    /\ hist = [last |-> NoOutcome, prev |-> NoOutcome]
    /\ seen = {}
    /\ want = {}
    /\ seeks = 0 /\ rawseeks = 0 /\ overrides = 0 /\ drops = 0
    /\ dirty = FALSE
    /\ lied = FALSE
    /\ fails = 0
    /\ stream = NoStream

SpecUtf8 == InitUtf8 /\ [][Next]_vars

\* The reader on the inputs whose row 0 outgrows both stores of a fresh
\* record, trimming nothing.
InitGrow ==
    /\ data \in {DataGrow, DataGrowNL, DataTrailing}
    /\ core = CoreNew
    /\ rdr = [off |-> 0, fill |-> 0]
    /\ \E has_headers \in BOOLEAN, flexible \in BOOLEAN :
           state = ReaderStateNew(has_headers, flexible, "None")
    /\ fut = NoFut
    /\ ret = NoRet
    /\ nok = 0 /\ nerr = 0
    /\ hist = [last |-> NoOutcome, prev |-> NoOutcome]
    /\ seen = {}
    /\ want = {}
    /\ seeks = 0 /\ rawseeks = 0 /\ overrides = 0 /\ drops = 0
    /\ dirty = FALSE
    /\ lied = FALSE
    /\ fails = 0
    /\ stream = NoStream

SpecGrow == InitGrow /\ [][Next]_vars

\* The rows of repeated overrides: set_headers is given a row with leading
\* whitespace, set_byte_headers another with trailing whitespace; neither
\* carries a Position.
StringOverride == [EmptyView EXCEPT !.fields = <<<<SPACE, "m">>>>]
ByteOverride == [EmptyView EXCEPT !.fields = <<<<"n", SPACE>>>>]

\* AsyncReader::set_headers, called up to MaxReplacements times.
set_headers_repeated ==
    /\ Idle /\ overrides < MaxReplacements
    /\ Apply(Done([World EXCEPT !.fut = Frame("set_headers"),
                                 !.state = set_headers_impl(state, StringOverride, TRUE)],
                   "unit", EmptyView, NoErr))
    /\ overrides' = overrides + 1
    /\ UNCHANGED <<drops, dirty, lied, fails, stream>>

\* AsyncReader::set_byte_headers, called up to MaxReplacements times.
set_byte_headers_repeated ==
    /\ Idle /\ overrides < MaxReplacements
    /\ Apply(Done([World EXCEPT !.fut = Frame("set_byte_headers"),
                                 !.state = set_headers_impl(state, ByteOverride, FALSE)],
                   "unit", EmptyView, NoErr))
    /\ overrides' = overrides + 1
    /\ UNCHANGED <<drops, dirty, lied, fails, stream>>

NextOverride ==
    \/ headers
    \/ byte_headers
    \/ set_headers_repeated
    \/ set_byte_headers_repeated
    \/ read_byte_record
    \/ read_record
    \/ seek
    \/ seek_raw
    \/ Poll

\* The reader on the input with whitespace, overridden more than once.
InitOverride == Init /\ data = DataSpaces

SpecOverride == InitOverride /\ [][NextOverride]_vars

\* AsyncReader::seek on a source that fails the physical seek.
seek_failing ==
    /\ Idle /\ seeks < MaxSeeks
    /\ \E pos \in SeekTargets :
         LET frame == [Frame("seek") EXCEPT !.pos = pos, !.fail = TRUE]
         IN  Apply(IF ~state.headers.some THEN Enter(World, frame, "hdr")
                   ELSE HdrTail([World EXCEPT !.fut = frame]))
    /\ UNCHANGED <<overrides, drops, dirty, lied, fails, stream>>

\* AsyncReader::seek_raw on a source that fails the physical seek.
seek_raw_failing ==
    /\ Idle /\ rawseeks < MaxRawSeeks
    /\ \E pos \in RawSeekTargets :
         LET frame == [Frame("seek_raw") EXCEPT !.pos = pos, !.from = pos.byte, !.fail = TRUE]
         IN  Apply(IF ~state.headers.some THEN Enter(World, frame, "hdr")
                   ELSE HdrTail([World EXCEPT !.fut = frame]))
    /\ UNCHANGED <<overrides, drops, dirty, lied, fails, stream>>

NextSeekFail ==
    \/ headers
    \/ byte_headers
    \/ read_byte_record
    \/ read_record
    \/ seek
    \/ seek_failing
    \/ seek_raw_failing
    \/ Poll

\* The reader on a source whose physical seek can fail.
SpecSeekFail == InitIo /\ [][NextSeekFail]_vars

\* Positions whose record index is the largest value of its type or the one
\* before it, at the start of each row.
FarTargets ==
    {[RowPos(data, k) EXCEPT !.record = r] :
        k \in 0..(NumRows(data) - 1), r \in {RecordMax - 1, RecordMax}}

\* AsyncReader::seek with such a Position.
seek_far ==
    /\ Idle /\ seeks < MaxSeeks
    /\ \E pos \in FarTargets :
         LET frame == [Frame("seek") EXCEPT !.pos = pos]
         IN  Apply(IF ~state.headers.some THEN Enter(World, frame, "hdr")
                   ELSE HdrTail([World EXCEPT !.fut = frame]))
    /\ UNCHANGED <<overrides, drops, dirty, lied, fails, stream>>

NextOverflow ==
    \/ headers
    \/ byte_headers
    \/ read_byte_record
    \/ read_record
    \/ seek_far
    \/ Poll

\* The reader sought to a Position near the end of the record indices.
SpecOverflow == InitIo /\ [][NextOverflow]_vars

\* AsyncReader::set_byte_headers with ByteRecord::new(), a row of no fields.
set_byte_headers_empty ==
    /\ Idle /\ overrides < MaxOverrides
    /\ Apply(Done([World EXCEPT !.fut = Frame("set_byte_headers"),
                                 !.state = set_headers_impl(state, EmptyView, FALSE)],
                   "unit", EmptyView, NoErr))
    /\ overrides' = overrides + 1
    /\ UNCHANGED <<drops, dirty, lied, fails, stream>>

NextEmptyOverride ==
    \/ headers
    \/ byte_headers
    \/ set_byte_headers_empty
    \/ read_byte_record
    \/ read_record
    \/ Poll

\* The reader overridden with a row of no fields.
SpecEmptyOverride == InitIo /\ [][NextEmptyOverride]_vars

\* ------------------------------------------------ stream adapter actions
ReaderVars == <<data, core, rdr, state, fut, ret, nok, nerr, hist, seen, want,
                seeks, rawseeks, overrides, drops, dirty, lied, fails>>

\* The four constructors: the adapter is made with its first read future,
\* which holds the reader and a new record and has not run.
NewStream(op, owned) ==
    /\ Idle /\ stream.fut = "absent" /\ stream.n < MaxStreams
    /\ stream' = [NoStream EXCEPT !.fut = "armed", !.op = op, !.owned = owned,
                                  !.made = 1, !.n = stream.n + 1]
    /\ UNCHANGED ReaderVars

\* AsyncReader::records
records == NewStream("read_record", FALSE)
\* AsyncReader::into_records
into_records == NewStream("read_record", TRUE)
\* AsyncReader::byte_records
byte_records == NewStream("read_byte_record", FALSE)
\* AsyncReader::into_byte_records
into_byte_records == NewStream("read_byte_record", TRUE)

\* read_record_borrowed and its three siblings: the result of the row read
\* r as an item.  Only a row carries the (cloned) record.
ItemOf(r) ==
    [kind |-> r.kind, rec |-> IF r.kind = "row" THEN r.rec ELSE EmptyView, err |-> r.err]

\* The poll_next arm as it would be if an error item ended the stream.
ReadyEndingOnError(st, item, buf) ==
    IF item.kind = "row"
    THEN [st EXCEPT !.fut = "armed", !.rec = buf, !.items = @ + 1, !.last = item,
                    !.made = @ + 1, !.ready = @ + 1]
    ELSE [st EXCEPT !.fut = "none", !.rec = ByteRecordNew,
                    !.items = IF item.kind = "end" THEN @ ELSE @ + 1,
                    !.last = item, !.ready = @ + 1]

\* The poll_next arm as it would be if the next read were armed before the
\* result were looked at.
ReadyAlwaysArming(st, item, buf) ==
    [st EXCEPT !.fut = "armed", !.rec = buf,
               !.items = IF item.kind = "end" THEN @ ELSE @ + 1,
               !.last = item, !.made = @ + 1, !.ready = @ + 1]

\* The Poll::Ready arm of poll_next: with Some(item) a new read future is
\* made of the reader and the record the old one handed back; with None
\* fut becomes None and reader handle and record are dropped.
Ready(st, item, buf) ==
    IF item.kind # "end"
    THEN [st EXCEPT !.fut = "armed", !.rec = buf, !.items = @ + 1, !.last = item,
                    !.made = @ + 1, !.ready = @ + 1]
    ELSE [st EXCEPT !.fut = "none", !.rec = ByteRecordNew, !.last = item, !.ready = @ + 1]

\* poll_next as it would be if it made a new read future whenever the one
\* it polled was not ready.
PollNextRearming(w, buf) ==
    /\ Apply(w)
    /\ stream' = IF w.fut.op = "none" THEN Ready(stream, ItemOf(w.ret), buf)
                 ELSE [stream EXCEPT !.fut = "running", !.made = @ + 1]

\* poll_next after it polled its read future, which left the reader in
\* world w and, if it resolved, handed back the record buffer buf.
PollNextTo(w, buf) ==
    /\ Apply(w)
    /\ stream' = IF w.fut.op = "none" THEN Ready(stream, ItemOf(w.ret), buf)
                 ELSE [stream EXCEPT !.fut = "running"]
\* The read future ran one iteration of read_byte_record_impl, result r.
PollNextRan(r) == PollNextTo(Resumed(r), r.w.fut.rec)

\* The record a replay clones from the cached header row v: stores just
\* large enough for it.
RECURSIVE Concat(_)
Concat(fs) == IF fs = <<>> THEN <<>> ELSE Head(fs) \o Concat(Tail(fs))
CloneOf(v) ==
    [fields |-> Concat(v.fields),
     ends |-> [i \in 1..Len(v.fields) |-> Len(Concat(SubSeq(v.fields, 1, i)))],
     len |-> Len(v.fields), pos |-> v.pos, origin |-> v.origin]
\* The read future of an armed adapter does not parse: it replays.
Replays(st) == ~st.seeked /\ ~st.has_headers /\ ~st.first /\ st.headers.some

\* poll_next as it would be if a poll after the end armed a new read.
poll_next_fused ==
    /\ \/ /\ stream.fut = "armed"
          /\ PollNextTo(read_byte_record_from(World, [Frame(stream.op) EXCEPT !.rec = stream.rec]),
                        IF Replays(state) THEN CloneOf(state.headers.byte_record)
                        ELSE stream.rec)
       \/ /\ stream.fut = "running"
          /\ \E n \in FillChoices : \E r \in {ImplIter(data, World, n)} : PollNextRan(r)
       \/ /\ stream.fut = "none"
          /\ stream' = [stream EXCEPT !.fut = "armed", !.made = @ + 1]
          /\ UNCHANGED <<data, core, rdr, state, fut, ret, nok, nerr, hist, seen, want,
                         seeks, rawseeks>>
    /\ UNCHANGED <<overrides, drops, dirty, lied, fails>>

\* Stream::poll_next of the four adapters.  An armed future starts its row
\* read and runs to its first wait for bytes or to its end; a running one
\* resumes with the bytes the source delivers; with fut None the unwrap
\* panics.
poll_next ==
    /\ \/ /\ stream.fut = "armed"
          /\ PollNextTo(read_byte_record_from(World, [Frame(stream.op) EXCEPT !.rec = stream.rec]),
                        IF Replays(state) THEN CloneOf(state.headers.byte_record)
                        ELSE stream.rec)
       \/ /\ stream.fut = "running"
          /\ \E n \in FillChoices : \E r \in {ImplIter(data, World, n)} : PollNextRan(r)
       \/ /\ stream.fut = "none"
          /\ stream' = [stream EXCEPT !.fut = "panicked"]
          /\ UNCHANGED <<data, core, rdr, state, fut, ret, nok, nerr, hist, seen, want,
                         seeks, rawseeks>>
    /\ UNCHANGED <<overrides, drops, dirty, lied, fails>>

\* Stream::poll_next when the read of the source fails under its future.
poll_next_failing ==
    /\ stream.fut = "running" /\ fails < MaxFails
    /\ rdr.off = rdr.fill
    /\ PollNextTo(IoFailed(World), fut.rec)
    /\ fails' = fails + 1
    /\ UNCHANGED <<overrides, drops, dirty, lied>>

\* Dropping a borrowing adapter as it would be if the read future it holds
\* had been started when it was made.
drop_stream_started ==
    /\ stream.fut \in {"armed", "none"} /\ ~stream.owned
    /\ stream' = [NoStream EXCEPT !.n = stream.n]
    /\ IF stream.fut = "armed"
       THEN /\ Apply(read_byte_record_from(World, [Frame(stream.op) EXCEPT !.rec = stream.rec]))
            /\ UNCHANGED <<overrides, drops, dirty, lied, fails>>
       ELSE UNCHANGED ReaderVars

\* A borrowing adapter is dropped between two items or after the end: its
\* unstarted read future and its record go, the reader is free again.
drop_stream ==
    /\ stream.fut \in {"armed", "none"} /\ ~stream.owned
    /\ stream' = [NoStream EXCEPT !.n = stream.n]
    /\ UNCHANGED ReaderVars

\* Header queries and row reads on the reader itself: the borrow rules
\* allow them only while no adapter holds the reader.
Direct ==
    /\ stream.fut = "absent"
    /\ headers \/ byte_headers \/ read_byte_record \/ read_record \/ Poll

NextStream ==
    \/ Direct
    \/ records
    \/ into_records
    \/ byte_records
    \/ into_byte_records
    \/ poll_next
    \/ poll_next_failing
    \/ drop_stream

\* The reader and its stream adapters, trimming nothing, on the three-row
\* input, the empty one and the one whose row 0 is not UTF-8.
InitStream ==
    \/ Init /\ data \in {DataUnequal, DataEmpty} /\ state.trim = "None"
    \/ InitUtf8

SpecStream == InitStream /\ [][NextStream]_vars

\* A caller that awaits what it calls, keeps reading rows, and polls an
\* adapter until it ends, on a source that does not fail: the future of a
\* call on the reader is polled again (PollDirect), row reads keep being
\* called (RowRead), an adapter keeps being polled (poll_next); the source
\* may answer Pending but delivers in the end.
PollDirect == stream.fut = "absent" /\ Poll
RowRead == stream.fut = "absent" /\ (read_byte_record \/ read_record)
NextLive ==
    \/ Direct
    \/ records
    \/ into_records
    \/ byte_records
    \/ into_byte_records
    \/ poll_next
    \/ PollPending
SpecLive ==
    /\ InitIo /\ [][NextLive]_vars
    /\ WF_vars(PollDirect) /\ SF_vars(RowRead) /\ WF_vars(poll_next)

\* ----------------------------------------------------------- properties
NoSeek == seeks + rawseeks = 0
NoOverride == overrides = 0
\* A row read has returned and nothing is in flight.
RowReadReturned == Idle /\ ret.op \in RowReadOps
RowReturned == RowReadReturned /\ ret.kind = "row"
HeadersReturned == Idle /\ ret.op \in HeaderOps /\ ret.kind = "headers"
\* Row reads that took a physical row so far: returned it or rejected it.
Consumed == nok + nerr
\* The physical row the next row read takes when nothing was sought or
\* overridden: has_headers=true keeps row 0 from the row reads.
NextRow == IF state.has_headers THEN Consumed ELSE Consumed - 1

\* The number of physical rows the row reads take in all.
DataRows == IF state.has_headers THEN Max({NumRows(data) - 1, 0}) ELSE NumRows(data)

\* The fields of physical row k as a row read hands them out.
AsRow(k) ==
    IF should_trim_fields(state.trim) THEN TrimFields(RowFields(data, k)) ELSE RowFields(data, k)
\* The fields of physical row k as a header query hands them out.
AsHeader(k) ==
    IF should_trim_headers(state.trim) THEN TrimFields(RowFields(data, k)) ELSE RowFields(data, k)
\* The record r is physical row k: read from where row k starts, with the
\* Position of row k.
IsPhysRow(r, k) ==
    /\ k >= 0 /\ k < NumRows(data)
    /\ r.origin = RowReadStart(data, k)
    /\ r.pos = RowPos(data, k)

\* C1: with has_headers=true and no seek, no row read returns physical row
\* 0, whatever header queries and manual overrides were made.
C1_NeverRowZero ==
    (state.has_headers /\ NoSeek /\ RowReturned) => ret.rec.origin # 0

\* C2: with has_headers=true, no override and no seek, the successful row
\* reads return physical rows 1, 2, ..., n in order, each once, and then no
\* more rows: the i-th successful read returns row i.
C2_SuccessfulReadsAreRows1toN ==
    (state.has_headers /\ NoSeek /\ NoOverride /\ RowReadReturned) =>
        /\ ret.kind = "row" => IsPhysRow(ret.rec, nok) /\ ret.rec.fields = AsRow(nok)
        /\ ret.kind = "end" => nok = DataRows

\* C2 as amended: every row read takes the next physical row, and returns
\* it unless it fails width validation; the i-th read that takes a row
\* takes row i, and "no more rows" comes when rows 1..n are all taken.
C2_ReadsTakeRows1toN ==
    (state.has_headers /\ NoSeek /\ NoOverride /\ RowReadReturned) =>
        /\ ret.kind \in {"row", "width", "end"}
        /\ ret.kind \in {"row", "width"} => IsPhysRow(ret.rec, Consumed)
        /\ ret.kind = "row" => ret.rec.fields = AsRow(Consumed)
        /\ ret.kind = "end" => Consumed = DataRows
C2_Witness ==
    /\ state.has_headers /\ NoSeek /\ NoOverride /\ RowReadReturned
    /\ ret.kind = "end" /\ nok = 1 /\ nerr = 1 /\ state.headers.some

\* C3: with has_headers=false, no override and no seek, the rows returned
\* by row reads are physical rows 0, 1, ..., n-1 in order, each once, with
\* the Position of the row, whether or not header queries were made: the
\* i-th successful read returns row i-1 (fields compared up to trimming).
C3_SuccessfulReadsAreAllRows ==
    (~state.has_headers /\ NoSeek /\ NoOverride /\ RowReadReturned) =>
        /\ ret.kind = "row" =>
              /\ IsPhysRow(ret.rec, nok - 1)
              /\ TrimFields(ret.rec.fields) = TrimFields(RowFields(data, nok - 1))
        /\ ret.kind = "end" => nok = DataRows

\* C3 as amended: the i-th row read that takes a row takes physical row
\* i-1, whether or not header queries were made, and returns it with its
\* Position unless it fails width validation; "no more rows" comes when
\* every row was taken once.
C3_ReadsTakeAllRows ==
    (~state.has_headers /\ NoSeek /\ NoOverride /\ RowReadReturned) =>
        /\ ret.kind \in {"row", "width", "end"}
        /\ ret.kind \in {"row", "width"} => IsPhysRow(ret.rec, Consumed - 1)
        /\ ret.kind = "row" =>
              TrimFields(ret.rec.fields) = TrimFields(RowFields(data, Consumed - 1))
        /\ ret.kind = "end" => Consumed = DataRows
\* Headers were queried first, and the first row read replayed the cached
\* header as row 0 of a three-row input without polling the byte source.
C3_Witness ==
    /\ ~state.has_headers /\ NoSeek /\ NoOverride /\ RowReturned
    /\ ~ret.polled /\ IsPhysRow(ret.rec, 0) /\ Consumed = 1 /\ NumRows(data) = 3

\* C4: without a manual override, a header query that succeeds returns
\* physical row 0 (a row without fields when the input has no row), before
\* and after row reads, at the end of the input and after a seek.
C4_HeadersAreRowZero ==
    (NoOverride /\ HeadersReturned) =>
        IF NumRows(data) = 0 THEN ret.rec.fields = <<>>
        ELSE IsPhysRow(ret.rec, 0) /\ ret.rec.fields = AsHeader(0)
\* A header query answered after a seek, at the end of the input.
C4_Witness ==
    /\ NoOverride /\ HeadersReturned /\ NumRows(data) > 1
    /\ state.seeked /\ state.eof /\ ret.rec.fields = AsHeader(0)

\* C5: with flexible=false and no seek, a width error names the field count
\* of physical row 0 as expected, the field count of the offending row as
\* actual and the Position of the offending row; and a row that a row read
\* parsed and returned has the field count of row 0.
C5_WidthError ==
    (~state.flexible /\ NoSeek /\ Idle) =>
        /\ ret.kind = "width" =>
              LET k == RowAt(data, ret.rec.origin)
              IN  /\ k >= 1
                  /\ ret.err.expected = Len(RowFields(data, 0))
                  /\ ret.err.len = Len(RowFields(data, k))
                  /\ ret.err.len # ret.err.expected
                  /\ ret.err.pos = RowPos(data, k)
        /\ (RowReturned /\ ret.rec.origin >= 0) =>
              Len(ret.rec.fields) = Len(RowFields(data, 0))
C5_Witness ==
    /\ ~state.flexible /\ NoSeek /\ Idle /\ ret.kind = "width"
    /\ ret.err.expected = 1 /\ ret.err.len = 2 /\ ret.err.pos = RowPos(data, 1)

\* C6: a width error leaves eof clear and the expected width as it was, and
\* the row read that follows it (no seek in between) takes the physical row
\* after the offending one, with that row's Position, and returns it when
\* its width is the expected one; after the last row it reports the end.
C6_WidthErrorRecoverable ==
    /\ (Idle /\ ret.kind = "width") =>
          ~state.eof /\ state.first_field_count = ret.err.expected
    /\ (NoSeek /\ RowReadReturned /\ hist.prev.kind = "width") =>
          LET k == RowAt(data, hist.prev.origin)
          IN  IF k + 1 < NumRows(data)
              THEN /\ ret.kind \in {"row", "width"}
                   /\ IsPhysRow(ret.rec, k + 1)
                   /\ Len(RowFields(data, k + 1)) = state.first_field_count =>
                         ret.kind = "row" /\ ret.rec.fields = AsRow(k + 1)
              ELSE ret.kind = "end"
C6_Witness ==
    /\ NoSeek /\ RowReturned /\ hist.prev.kind = "width"
    /\ IsPhysRow(ret.rec, 2) /\ ret.rec.fields = <<<<"c">>>>

\* C7: with flexible=true no call ever returns a width error.
C7_FlexibleNoWidthError ==
    state.flexible => ret.kind # "width"
\* Rows of different widths were returned one after the other.
C7_Witness ==
    /\ state.flexible /\ RowReturned
    /\ \E r \in seen : Len(r.fields) # Len(ret.rec.fields)

\* C8: a row read called when eof is set returns "no more rows" and reads
\* nothing from the byte source, whatever calls came before it.
C8_ExhaustedStaysExhausted ==
    (RowReadReturned /\ ret.eof0) => (ret.kind = "end" /\ ~ret.polled)

\* C9: after a row read was dropped while it waited for bytes, at whichever
\* of its waits, the row reads that follow return complete physical rows:
\* the row the dropped read would have returned, with its Position.
C9_DropAnywhereKeepsRows ==
    (drops > 0 /\ NoSeek /\ NoOverride /\ RowReadReturned) =>
        /\ ret.kind \in {"row", "width"} => IsPhysRow(ret.rec, NextRow)
        /\ ret.kind = "row" =>
              TrimFields(ret.rec.fields) = TrimFields(RowFields(data, NextRow))

\* C9 as amended: the same, for a read dropped at a wait before which its
\* call of read_byte_record_impl had consumed no byte.
C9_DropBeforeConsumingKeepsRows ==
    (drops > 0 /\ ~dirty /\ NoSeek /\ NoOverride /\ RowReadReturned) =>
        /\ ret.kind \in {"row", "width", "end"}
        /\ ret.kind \in {"row", "width"} => IsPhysRow(ret.rec, NextRow)
        /\ ret.kind = "row" =>
              TrimFields(ret.rec.fields) = TrimFields(RowFields(data, NextRow))
        /\ ret.kind = "end" => Consumed = DataRows
\* A read was dropped at its first wait and a later read returned a row of
\* two fields.
C9_Witness ==
    /\ drops > 0 /\ ~dirty /\ NoSeek /\ NoOverride /\ RowReturned
    /\ Len(ret.rec.fields) = 2 /\ ret.rec.origin > 0

\* C10: the row read right after a seek to the Position of a row that a row
\* read returned (not row 0) returns a row with the same fields.
C10_SeekRoundTrip ==
    (RowReadReturned /\ want # {}) => (ret.kind = "row" /\ want = {ret.rec.fields})


\* C10 as amended: the same, as long as no seek_raw was given a Position
\* whose byte offset is not the offset it seeks to.
C10_SeekRoundTripTruthful ==
    (~lied /\ RowReadReturned /\ want # {}) => (ret.kind = "row" /\ want = {ret.rec.fields})
\* Row 1 was returned, the input was read to its end, and after the seek
\* back row 1 was returned again.
C10_Witness ==
    /\ ~lied /\ RowReturned /\ want = {ret.rec.fields}
    /\ IsPhysRow(ret.rec, 1) /\ NumRows(data) = 3

\* ------------------------------------------------- properties of seeking
\* This step returns from a successful seek / seek_raw.
SeekReturns == seeks' = seeks + 1 /\ ret'.kind = "unit"
RawSeekReturns == rawseeks' = rawseeks + 1 /\ ret'.kind = "unit"
\* The world in which the call that this step completes has resolved the
\* headers and done nothing else yet: what byte_headers would have left,
\* the byte source delivering n bytes if it is asked.
HeadersResolved(n) ==
    IF Idle
    THEN IF state.headers.some THEN World
         ELSE Enter(World, Frame("byte_headers"), "hdr")
    ELSE Resume(data, [World EXCEPT !.fut.op = "byte_headers"], n)
\* The Position the reader tracked when the call in flight (or about to be
\* made) started.
CallPos == IF Idle THEN state.cur_pos ELSE fut.pos0
\* Line terminators among the bytes a+1..b of the input.
NLCount(a, b) == Cardinality({i \in (a + 1)..b : i <= Len(data) /\ data[i] = NL})

\* C11: a seek that seeks physically (seek to a byte offset other than the
\* tracked one, seek_raw always) leaves the supplied Position as the
\* tracked Position, the tokenizer reset with its line at the supplied
\* line, and eof clear.
C11_SeekInstallsPosition ==
    \A n \in FillChoices :
        LET b == HeadersResolved(n)
        IN  (/\ b.fut.op = "none"
             /\ \/ RawSeekReturns
                \/ SeekReturns /\ ret'.arg.byte # b.state.cur_pos.byte)
            => /\ state'.cur_pos = ret'.arg
               /\ core' = CoreSetLine(CoreNew, ret'.arg.line)
               /\ ~state'.eof
\* C11: the row read called with the supplied Position as the tracked one
\* right after a seek stamps its record with exactly that Position.
C11_NextReadStamped ==
    (ret.op \in SeekOps /\ ret.kind = "unit" /\ CallPos = ret.arg /\ ret'.op \in RowReadOps)
        => ret'.rec.pos = ret.arg
\* C11: after a seek the Positions of successive row reads continue from
\* the one before: one record further, as many bytes and lines further as
\* the source offsets of the two reads are apart.
C11_PositionsContinue ==
    (~NoSeek /\ RowReadReturned /\ ret.kind \in {"row", "width"}
       /\ hist.prev.kind \in {"row", "width"}) =>
        /\ ret.rec.pos.record = hist.prev.pos.record + 1
        /\ ret.rec.pos.byte - hist.prev.pos.byte = ret.rec.origin - hist.prev.origin
        /\ ret.rec.pos.line - hist.prev.pos.line = NLCount(hist.prev.origin, ret.rec.origin)
\* C11: a physical seek replaces the tracked Position verbatim by the
\* supplied one, resets the tokenizer with the supplied line and clears
\* eof; the next row read is stamped with the supplied Position and later
\* Positions continue from it.
C11_PhysicalSeek ==
    /\ [][C11_SeekInstallsPosition]_vars
    /\ [][C11_NextReadStamped]_vars
    /\ []C11_PositionsContinue
\* A seek_raw was given a Position that fits nothing, the row read after
\* it returned a row stamped with it, and the next one a row stamped one
\* record further.
C11_Witness ==
    /\ RowReturned /\ rawseeks = 1 /\ seeks = 0
    /\ hist.prev.kind = "row" /\ hist.prev.pos = LiePos
    /\ ret.rec.pos.record = LiePos.record + 1

\* C12: a seek to the byte offset the reader tracks (once the headers are
\* resolved) performs no physical seek: the tracked Position, the
\* tokenizer, the buffered bytes and eof are as header resolution left
\* them, and seeked is set.
C12_SameOffsetFrame ==
    \A n \in FillChoices :
        LET b == HeadersResolved(n)
        IN  (/\ SeekReturns /\ b.fut.op = "none"
             /\ Idle \/ rdr'.fill = rdr.fill + n
             /\ ret'.arg.byte = b.state.cur_pos.byte)
            => /\ state' = [b.state EXCEPT !.seeked = TRUE]
               /\ core' = b.core
               /\ rdr' = b.rdr
C13_EverySeekClears ==
    (Idle /\ ret.op = "seek" /\ ret.kind = "unit") =>
        /\ ~state.eof
        /\ core = CoreSetLine(CoreNew, ret.arg.line)
        /\ rdr.off = rdr.fill

\* C13 as amended: the same after every successful seek whose target byte
\* offset is not the one the reader tracks once the headers are resolved;
\* the byte source is then at the target offset with nothing buffered.
C13_PhysicalSeekFrame ==
    \A n \in FillChoices :
        LET b == HeadersResolved(n)
        IN  (SeekReturns /\ b.fut.op = "none" /\ ret'.arg.byte # b.state.cur_pos.byte)
            => /\ ~state'.eof
               /\ core' = CoreSetLine(CoreNew, ret'.arg.line)
               /\ rdr' = [off |-> ret'.arg.byte, fill |-> ret'.arg.byte]
C13_PhysicalSeekClears == [][C13_PhysicalSeekFrame]_vars
\* A seek called with eof set, back to row 1, returned with eof clear.
C13_Witness ==
    /\ Idle /\ ret.op = "seek" /\ ret.kind = "unit" /\ ret.eof0 /\ ~state.eof
    /\ NumRows(data) = 3 /\ ret.arg = RowPos(data, 1) /\ rdr.off = ret.arg.byte

\* This step returns from a row read.
RowReadCompletes == Idle' /\ ret'.op \in RowReadOps /\ (Idle \/ fut.op \in RowReadOps)

\* C14: a row read made with seeked set goes to the parser driver: its
\* record is stamped with the tracked Position, it polls the byte source
\* unless eof makes it report the end, and it leaves the header cache alone.
C14_SeekedReadsParse ==
    (state.seeked /\ RowReadCompletes) =>
        /\ state'.headers = state.headers
        /\ ret'.rec.pos = CallPos
        /\ ret'.polled \/ (ret'.eof0 /\ ret'.kind = "end")
\* C14: seeked is never cleared, and once it is set no row read replays
\* the cached header or captures headers.
C14_SeekedIsPermanent ==
    /\ [][state.seeked => state'.seeked]_vars
    /\ [][C14_SeekedReadsParse]_vars
\* With has_headers=false, after one seek to the start of the input, the
\* first row read after it parsed row 0 from the byte source.
C14_Witness ==
    /\ ~state.has_headers /\ state.seeked /\ RowReturned /\ ret.polled
    /\ seeks = 1 /\ rawseeks = 0 /\ hist.prev.kind = "none"
    /\ ret.rec.origin = 0 /\ ret.rec.pos = NewPosition /\ NumRows(data) = 3

\* ------------------------------------------------- seek and the header cache
\* C15: seeked and first are set only with the header cache populated.
C15_FlagsImplyHeaders ==
    /\ state.seeked => state.headers.some
    /\ state.first => state.headers.some
\* C15: while a seek or seek_raw that found no cached headers is in flight
\* it only reads the header row: seeked stays false and the source is not
\* repositioned; the step that sets seeked has the cache populated.
C15_HeaderReadComesFirst ==
    /\ (fut.op \in SeekOps /\ fut'.op \in SeekOps) =>
          /\ ~state'.headers.some /\ state'.seeked = state.seeked
          /\ state'.eof = state.eof /\ rdr'.off >= rdr.off /\ rdr'.fill >= rdr.fill
    /\ (~state.seeked /\ state'.seeked) =>
          /\ state'.headers.some /\ Idle' /\ ret'.op \in SeekOps /\ ret'.kind = "unit"
\* C15: a seek or seek_raw whose header read fails returns the error with
\* seeked still false, the header cache still empty and no physical seek:
\* reader state, tokenizer and buffer are as before the failing step.
C15_FailedSeekFrame ==
    (Idle' /\ ret'.op \in SeekOps /\ ret'.kind # "unit" /\ (Idle \/ fut.op \in SeekOps)) =>
        /\ ~state'.seeked /\ ~state'.headers.some
        /\ state' = state /\ core' = core /\ rdr' = rdr
\* C15: seek resolves headers before anything else.
C15_SeekResolvesHeadersFirst ==
    /\ []C15_FlagsImplyHeaders
    /\ [][C15_HeaderReadComesFirst]_vars
    /\ [][C15_FailedSeekFrame]_vars
\* A seek on a reader without cached headers failed in its header read
\* after that read had consumed bytes.
C15_Witness ==
    /\ Idle /\ ret.op \in SeekOps /\ ret.kind = "io" /\ ret.polled
    /\ ~state.seeked /\ ~state.headers.some /\ rdr.off > 0

\* ------------------------------------------------- Positions of the rows
\* C16: after any row read returns, with a row, with the end or with an
\* error, the record passed in carries a Position.
C16_RecordHasPosition == RowReadReturned => ret.rec.pos # NoPos

\* Position p is nowhere behind Position q.
PosLeq(q, p) == q.byte <= p.byte /\ q.line <= p.line /\ q.record <= p.record
\* The last two row reads both took a row: returned it or rejected it.
TwoRowsTaken == hist.last.kind \in {"row", "width"} /\ hist.prev.kind \in {"row", "width"}

\* C17: absent seeks, a returned row carries the byte offset at which its
\* read started and the index of the physical row it is, which is the
\* number of rows completed before it; successive rows taken by the row
\* reads have strictly increasing record indices.
C17_RowsCarryTheirPosition ==
    /\ (NoSeek /\ RowReturned) =>
          /\ ret.rec.pos.byte = ret.rec.origin
          /\ \E k \in 0..(NumRows(data) - 1) : IsPhysRow(ret.rec, k)
    /\ (NoSeek /\ TwoRowsTaken) => hist.last.pos.record > hist.prev.pos.record
\* C17: absent seeks, no step moves the tracked Position backwards.
C17_TrackedPositionMonotone == NoSeek' => PosLeq(state.cur_pos, state'.cur_pos)
\* C17: Position accounting, absent seeks.
C17_PositionAccounting ==
    /\ []C17_RowsCarryTheirPosition
    /\ [][C17_TrackedPositionMonotone]_vars

\* ------------------------------------------------ a header that is not UTF-8
\* The index of the first field of row 0 that is not UTF-8.
BadField == Min({i \in 1..Len(RowFields(data, 0)) : ~Utf8Valid(RowFields(data, 0)[i])}) - 1
\* The header cache holds the bytes of row 0 and the failed conversion.
CacheIsRowZero ==
    /\ state.headers.byte_record.fields = RowFields(data, 0)
    /\ IsPhysRow(state.headers.byte_record, 0)
    /\ state.headers.string_record = [ok |-> FALSE, field |-> BadField]
\* byte_headers returns all of row 0; headers fails with the Position of
\* row 0 and the index of the bad field.
HeaderQueriesOnBadRow ==
    /\ (Idle /\ ret.op = "byte_headers") =>
          ret.kind = "headers" /\ ret.rec.fields = RowFields(data, 0) /\ IsPhysRow(ret.rec, 0)
    /\ (Idle /\ ret.op = "headers") =>
          ret.kind = "utf8" /\ ret.err.pos = RowPos(data, 0) /\ ret.err.field = BadField
\* Row reads of the rows after row 0, absent seeks: each returns the row
\* that starts where it began to read, whole, or the end; the row after a
\* returned or rejected one is the next one.
LaterRowsUnaffected ==
    (NoSeek /\ RowReadReturned /\ ret.rec.origin > 0) =>
        /\ ret.kind \in {"row", "end"}
        /\ ret.kind = "row" =>
              \E k \in 1..(NumRows(data) - 1) :
                  IsPhysRow(ret.rec, k) /\ ret.rec.fields = RowFields(data, k)
        /\ (ret.kind = "row" /\ hist.prev.kind \in {"row", "utf8"}) =>
              ret.rec.pos.record = hist.prev.pos.record + 1
        /\ ret.kind = "end" => ret.rec.origin = Len(data)

\* The cache captured from a row 0 that is not UTF-8, and what the calls
\* return with it.
BadHeaderKept ==
    /\ state.headers.some => CacheIsRowZero
    /\ HeaderQueriesOnBadRow
    /\ LaterRowsUnaffected

\* A header query made with the cache set answers from the cache.
AnsweredFromCache ==
    (Idle /\ state.headers.some /\ Idle' /\ ret'.op \in HeaderOps) =>
        ~ret'.polled /\ rdr' = rdr /\ core' = core /\ state' = state
\* C18: when row 0 is not UTF-8 the cache captured from it (no manual
\* override replaced it) holds its bytes and the failed conversion:
\* byte_headers returns all fields of row 0, headers fails on every call
\* with the Position of row 0 and the index of the bad field without reading
\* the source again, and the rows after row 0 are read as ever.
C18_BadHeaderKept ==
    /\ [](NoOverride => BadHeaderKept)
    /\ [][NoOverride' => AnsweredFromCache]_vars
\* headers() failed on a call that found the cache set, after the row
\* reads had returned the last row and then the end.
C18_Witness ==
    /\ NoOverride /\ NoSeek /\ Idle /\ ret.op = "headers" /\ ret.kind = "utf8"
    /\ ~ret.polled /\ ret.err.field = 1 /\ ret.err.pos = NewPosition
    /\ hist.last.kind = "end" /\ hist.prev.kind = "row" /\ hist.prev.pos.record = 2

\* ------------------------------------------------------- manual overrides
\* This step is a manual override.
Overrides == overrides' = overrides + 1
\* The fields of an overriding row as the header queries hand them out.
OverrideFields(v) == IF should_trim_headers(state.trim) THEN TrimFields(v.fields) ELSE v.fields

\* C19: an override installs its row whatever the cache held.
C19_OverrideInstalls ==
    Overrides =>
        /\ state'.headers.some
        /\ ret'.op = "set_headers" =>
              /\ state'.headers.byte_record.fields = OverrideFields(StringOverride)
              /\ state'.headers.string_record.ok
        /\ ret'.op = "set_byte_headers" =>
              /\ state'.headers.byte_record.fields = OverrideFields(ByteOverride)
              /\ state'.headers.string_record.ok
\* C19: once overridden, only an override changes the cache.
C19_OnlyOverrideChanges ==
    (overrides > 0 /\ ~Overrides) => state'.headers = state.headers
\* C19: once overridden, a header query returns the cache at once, reading
\* nothing.
C19_QueryReturnsOverride ==
    (overrides > 0 /\ Idle /\ Idle' /\ ret'.op \in HeaderOps) =>
        /\ ret'.kind = "headers" /\ ret'.rec = state.headers.byte_record
        /\ ~ret'.polled /\ rdr' = rdr /\ core' = core /\ state' = state
\* C19: after an override every header query is answered in the step that
\* calls it.
C19_QueryNeverWaits == (overrides > 0 /\ ~Idle) => fut.op \notin HeaderOps
\* C19: a manual override replaces the header cache at any time; from then
\* on header queries return the overriding row (trimmed as headers are)
\* without reading the source, and nothing but a later override changes the
\* cache.
C19_OverrideWins ==
    /\ [][C19_OverrideInstalls]_vars
    /\ [][C19_OnlyOverrideChanges]_vars
    /\ [][C19_QueryReturnsOverride]_vars
    /\ []C19_QueryNeverWaits
\* With has_headers=true and no trimming: after two overrides, a seek and
\* row reads up to the end, byte_headers returned the row of the last
\* override, set by set_byte_headers over a cache that held another row.
C19_Witness ==
    /\ state.has_headers /\ state.trim = "None"
    /\ overrides = 2 /\ seeks = 1 /\ Idle /\ ret.op = "byte_headers" /\ ret.kind = "headers"
    /\ ret.rec.fields = <<<<"n", SPACE>>>> /\ hist.last.kind = "end" /\ hist.prev.kind = "row"

\* ------------------------------------------------------------ empty input
\* C20: on the empty input, without a manual override, a header query
\* returns the row without fields, a row read reports the end without a
\* row, whichever came first; no call fails and both leave the reader
\* exhausted (a header query answered from the cache after a seek finds it
\* as the seek left it).
C20_EmptyInput ==
    (data = DataEmpty /\ NoOverride /\ Idle) =>
        /\ ret.kind \in {"none", "headers", "end", "unit"}
        /\ ret.op \in HeaderOps =>
              ret.kind = "headers" /\ ret.rec.fields = <<>> /\ (NoSeek => state.eof)
        /\ ret.op \in RowReadOps =>
              ret.kind = "end" /\ ret.rec.fields = <<>> /\ state.eof
\* With has_headers=false the first row read, made after a header query had
\* reached the end of the empty input, reported the end.
C20_Witness ==
    /\ data = DataEmpty /\ ~state.has_headers /\ NoOverride /\ NoSeek
    /\ RowReadReturned /\ ret.kind = "end" /\ ret.eof0 /\ ~ret.polled
    /\ hist.prev.kind = "none" /\ state.headers.some /\ state.first /\ state.eof

\* -------------------------------------------------------- stream adapters
\* This step is a poll_next whose read future resolved.
ReadyStep == stream.fut \in {"armed", "running"} /\ stream'.ready = stream.ready + 1
\* This step is a poll_next on an adapter that holds a read future.
PollStep == stream.fut \in {"armed", "running"} /\ stream'.fut # "absent" /\ stream' # stream
ErrorKinds == {"width", "utf8", "io"}
TakenKinds == {"row", "width", "utf8"}

\* C21: a poll_next whose future resolved hands out what the row read of
\* this step returned: the row, cloned, or nothing more when the read
\* reported no more rows, and only then; and a poll_next whose row read
\* returned has its future resolved.
C21_ItemIsReadResult ==
    /\ ReadyStep =>
          /\ Idle' /\ ret'.op = stream.op /\ stream'.last.kind = ret'.kind
          /\ ret'.kind = "row" =>
                /\ stream'.last.rec = ret'.rec
                /\ stream'.items = stream.items + 1 /\ stream'.fut = "armed"
          /\ ret'.kind = "end" =>
                stream'.items = stream.items /\ stream'.fut = "none"
          /\ stream'.fut = "none" => ret'.kind = "end"
    /\ (PollStep /\ Idle') => ReadyStep
    /\ (PollStep /\ ~Idle') =>
          stream'.items = stream.items /\ stream'.last = stream.last /\ stream'.fut = "running"
\* C21: while no read of the source failed, the rows the adapter hands out
\* are the rows of the input, one after the other: each is the physical
\* row after the one the row read before it took, the first being row 1
\* with has_headers=true and row 0 without; and the end comes with eof set.
C21_ItemsAreSuccessiveRows ==
    (stream.fut \in {"armed", "none"} /\ stream.items + stream.ready > 0 /\ fails = 0) =>
        /\ stream.last.kind = "row" =>
              LET k == RowAt(data, stream.last.rec.origin)
              IN  /\ IsPhysRow(stream.last.rec, k)
                  /\ stream.last.rec.fields = RowFields(data, k)
                  /\ hist.last.pos = stream.last.rec.pos
                  /\ hist.prev.kind \in TakenKinds => k = hist.prev.pos.record + 1
                  /\ hist.prev.kind = "none" => k = IF state.has_headers THEN 1 ELSE 0
        /\ stream.last.kind = "end" => state.eof /\ rdr.off = Len(data)
        /\ stream.ready = stream.items + (IF stream.fut = "none" THEN 1 ELSE 0)
\* C21: the items of a stream adapter are the results of successive row
\* reads, and the stream ends at the first that reports no more rows.
C21_StreamFollowsReads ==
    /\ [][C21_ItemIsReadResult]_vars
    /\ []C21_ItemsAreSuccessiveRows
\* With has_headers=true an adapter handed out rows 1 and 2 of the three-row
\* input and then ended.
C21_Witness ==
    /\ data = DataUnequal /\ state.has_headers /\ state.flexible /\ fails = 0
    /\ stream.fut = "none" /\ stream.items = 2 /\ stream.last.kind = "end"
    /\ hist.last.kind = "end" /\ hist.prev.kind = "row" /\ hist.prev.pos.record = 2

\* C22: a poll_next whose row read failed hands out that error as one item
\* and holds a new read future that has not run.
C22_ErrorIsOneItem ==
    (ReadyStep /\ ret'.kind \in ErrorKinds) =>
        /\ stream'.last = [kind |-> ret'.kind, rec |-> EmptyView, err |-> ret'.err]
        /\ stream'.items = stream.items + 1
        /\ stream'.fut = "armed" /\ stream'.made = stream.made + 1
\* C22: the row read after one that failed on a row (width or UTF-8) takes
\* the physical row after it; after any failure the rows whose read starts
\* at the start of a row come out whole, and the end comes only at the end
\* of the input.
C22_RowsFollowError ==
    (stream.fut \in {"armed", "none"} /\ stream.ready > 0) =>
        /\ (stream.last.kind = "row" /\ hist.prev.kind \in {"width", "utf8"} /\ fails = 0) =>
              IsPhysRow(stream.last.rec, hist.prev.pos.record + 1)
        /\ (stream.last.kind = "row" /\ RowAt(data, stream.last.rec.origin) >= 0) =>
              stream.last.rec.fields = RowFields(data, RowAt(data, stream.last.rec.origin))
        /\ stream.last.kind = "end" => state.eof /\ rdr.off = Len(data)
IsTrimmed(v) == \A i \in 1..Len(v.fields) : TrimField(v.fields[i]) = v.fields[i]

\* C23: with trim policy Fields or All, every row a row read returns has
\* whitespace trimmed from all of its fields.
C23_ReturnedRowsTrimmed ==
    (should_trim_fields(state.trim) /\ RowReturned) => IsTrimmed(ret.rec)

\* The row v has the fields of the physical row it was read from, as they
\* stand in the input.
IsRaw(v) ==
    RowAt(data, v.origin) >= 0 /\ v.fields = RowFields(data, RowAt(data, v.origin))

\* C24, policy Headers: what header queries return is trimmed and no row a
\* row read returns is.
C24_HeadersPolicy ==
    (state.trim = "Headers" /\ NoOverride /\ NoSeek) =>
        /\ HeadersReturned => IsTrimmed(ret.rec)
        /\ RowReturned => IsRaw(ret.rec)
\* C24, policy Fields: the rows are trimmed and what header queries return
\* is not.
C24_FieldsPolicy ==
    (state.trim = "Fields" /\ NoOverride /\ NoSeek) =>
        /\ RowReturned => IsTrimmed(ret.rec)
        /\ (HeadersReturned /\ NumRows(data) > 0) => IsRaw(ret.rec)
\* C24: header-scope and field-scope trimming are independent, for any
\* order of header queries and row reads.
C24_TrimScopesIndependent == C24_HeadersPolicy /\ C24_FieldsPolicy

\* C25: an adapter holds one read future that has not resolved, armed or
\* waiting for bytes, or none; the reader has a call in flight under an
\* adapter only as that future; without a future the adapter holds no
\* record.
C25_OneFutureOrNone ==
    /\ stream.made - stream.ready = IF stream.fut \in {"armed", "running"} THEN 1 ELSE 0
    /\ stream.fut = "running" => fut.op = stream.op
    /\ stream.fut \in {"armed", "none", "panicked"} => Idle
    /\ stream.fut \in {"none", "panicked"} => stream.rec = ByteRecordNew
\* C25: an adapter makes a new read future only in a step in which the one
\* it held resolved.
C25_NewFutureAfterResolved ==
    (stream'.n = stream.n /\ stream'.made = stream.made + 1) =>
        stream'.ready = stream.ready + 1 /\ Idle' /\ stream'.fut = "armed"
\* C25: each stream adapter holds at most one in-flight read.
C25_AtMostOneRead ==
    /\ []C25_OneFutureOrNone
    /\ [][C25_NewFutureAfterResolved]_vars
\* The second read future of an adapter waits for bytes, the first having
\* resolved with an item.
C25_Witness ==
    /\ stream.fut = "running" /\ stream.made = 2 /\ stream.ready = 1 /\ stream.items = 1
    /\ ~Idle /\ fut.op = stream.op /\ fut.polled

\* ------------------------------------------------------ the expected width
\* C26: with flexible=true the expected width is never set; with
\* flexible=false it is unset only while the parser has completed no row
\* (no row but a replayed hand-installed header row and no width error was
\* returned, any header row present was
\* installed by hand or is the empty one of an input without rows), and once set it is the field count of a row of the
\* input, of row 0 when no seek was made.
C26_WidthIsOfFirstRow ==
    /\ state.flexible => state.first_field_count = -1
    /\ (~state.flexible /\ state.first_field_count = -1) =>
          /\ \A h \in {hist.last, hist.prev} :
                \/ h.kind \in {"none", "end"}
                \/ h.kind = "row" /\ h.origin = -1 /\ overrides > 0
          /\ state.headers.some => overrides > 0 \/ NumRows(data) = 0
    /\ state.first_field_count # -1 =>
          /\ NumRows(data) > 0
          /\ NoSeek => state.first_field_count = Len(RowFields(data, 0))
          /\ ~lied => \E k \in 0..(NumRows(data) - 1) :
                        state.first_field_count = Len(RowFields(data, k))
\* C26: no step changes an expected width that is set; a step that sets it
\* is a step of a reader with flexible=false in which the parser completes
\* a row of that many fields: the row captured as the header row, or, with
\* a header row already held, the row returned.
C26_WidthUnchanged ==
    /\ state.first_field_count # -1 => state'.first_field_count = state.first_field_count
    /\ (state.first_field_count = -1 /\ state'.first_field_count # -1) =>
          /\ ~state.flexible
          /\ \/ /\ ~state.headers.some /\ state'.headers.some
                /\ Len(state'.headers.byte_record.fields) = state'.first_field_count
             \/ /\ state.headers.some /\ fut'.op = "none" /\ ret'.kind = "row"
                /\ Len(ret'.rec.fields) = state'.first_field_count
\* C26: the expected width is set once, by the first row the parser
\* completes, and never changed afterwards; with flexible=true never set.
C26_WidthSetOnce ==
    /\ []C26_WidthIsOfFirstRow
    /\ [][C26_WidthUnchanged]_vars
\* After a width error, a seek and a manual override the expected width is
\* still the field count of row 0.
C26_Witness ==
    /\ ~state.flexible /\ data = DataUnequal /\ state.first_field_count = 1
    /\ seeks = 1 /\ overrides = 1 /\ Idle /\ ret.kind = "width" /\ ret.err.len = 2

\* ---------------------------------------------------------------- eof
\* C27: a step that sets eof is one in which the tokenizer returned End:
\* the call resolves with the source read to its end, as the end of the
\* rows, as an empty header row, or as a seek that stayed where it was.
C27_SetOnlyByEnd ==
    (~state.eof /\ state'.eof) =>
        /\ fut'.op = "none" /\ rdr'.off >= Len(data) /\ rdr'.fill = rdr'.off
        /\ \/ ret'.op \in RowReadOps /\ ret'.kind = "end"
           \/ ret'.op \in HeaderOps /\ ret'.kind = "headers" /\ ret'.rec.fields = <<>>
           \/ ret'.op = "seek" /\ ret'.kind = "unit" /\ ret'.arg.byte = state'.cur_pos.byte
\* C27: a step that clears eof is the completion of a seek_raw, or of a seek
\* whose target byte differs from the tracked one.
C27_ClearedOnlyBySeek ==
    (state.eof /\ ~state'.eof) =>
        /\ fut'.op = "none" /\ ret'.op \in SeekOps /\ ret'.kind = "unit"
        /\ ret'.op = "seek" => ret'.arg.byte # state.cur_pos.byte
\* C27: a step in which a call resolves with a row, a width error, a UTF-8
\* error or an I/O error, and a manual header override, leave eof as it was.
C27_OthersKeepEof ==
    \/ fut'.op # "none"
    \/ ret'.op \notin RowReadOps \cup HeaderOps \cup {"set_headers", "set_byte_headers"}
    \/ ret'.kind \notin {"row", "width", "utf8", "io", "unit"}
    \/ state'.eof = state.eof
\* C27: eof is set only by the tokenizer's End and cleared only by a
\* physical seek; while it is set the source is read to its end.
C27_EofLifecycle ==
    /\ [][C27_SetOnlyByEnd /\ C27_ClearedOnlyBySeek /\ C27_OthersKeepEof]_vars
    /\ [](state.eof => rdr.off = rdr.fill)
\* A row read that found eof set and left it set, after a failed read of the
\* source, a manual override and a seek that did not move.
C27_Witness ==
    /\ state.eof /\ Idle /\ ret.op \in RowReadOps /\ ret.kind = "end" /\ ret.eof0
    /\ seeks = 1 /\ overrides = 1 /\ fails = 1 /\ data = DataUnequal

\* ------------------------------------------------------ byte accounting
\* A step that completes a seek or a seek_raw.
SeekCompletes == fut'.op = "none" /\ ret'.op \in SeekOps /\ fut.op \in SeekOps \cup {"none"}
\* C28: a step that is not the completion of a seek advances the tracked
\* byte offset by exactly the bytes it consumed from the source, and never
\* consumes more than the source delivered.
C28_ConsumedIsCounted ==
    \/ SeekCompletes
    \/ /\ state'.cur_pos.byte - state.cur_pos.byte = rdr'.off - rdr.off
       /\ rdr'.off >= rdr.off /\ rdr'.off <= rdr'.fill
\* C28: when every seek_raw was given the byte offset of its Position, the
\* tracked byte offset is the source offset of the first unconsumed byte,
\* in every state and for every chunking; whatever the seeks, each step
\* counts what it consumes.
C28_ByteAccounting ==
    /\ [](~lied => state.cur_pos.byte = rdr.off)
    /\ [][C28_ConsumedIsCounted]_vars
\* A read in flight after a truthful seek, stopped inside a row on a chunk
\* boundary, with the tracked byte offset at the first unconsumed byte.
C28_Witness ==
    /\ ~Idle /\ seeks = 1 /\ ~lied /\ fut.op \in RowReadOps
    /\ rdr.off = state.cur_pos.byte /\ rdr.off = rdr.fill
    /\ rdr.off > 2 /\ RowAt(data, rdr.off) = -1 /\ fut.outlen > 0

\* ------------------------------------------------- the record being filled
\* The field bytes of a stretch of input, and the end offsets the
\* delimiters in it give, computed without the tokenizer.
FieldBytes(s) == SelectSeq(s, LAMBDA c : c # NL /\ c # DELIM)
NumDelims(s) == Cardinality({p \in 1..Len(s) : s[p] = DELIM})
DelimAt(s, i) ==
    CHOOSE p \in 1..Len(s) : s[p] = DELIM /\ Cardinality({q \in 1..p : s[q] = DELIM}) = i
EndsOf(s) == [i \in 1..NumDelims(s) |-> Len(FieldBytes(SubSeq(s, 1, DelimAt(s, i))))]
\* A call of read_byte_record_impl is in flight.
ImplRunning == fut.op # "none" /\ fut.stage # "none"
\* What the call in flight has consumed since it began.
Taken == SubSeq(data, fut.rec.origin + 1, rdr.off)
\* The result of the tokenizer invocation of a step that polls the call in
\* flight.
StepResult ==
    CoreReadRecord(core, SubSeq(data, rdr.off + 1, rdr'.fill),
                   Len(fut.rec.fields) - fut.outlen, Len(fut.rec.ends) - fut.endlen).res

\* C29: while a row read is in flight, the first outlen bytes of the field
\* store are the field bytes of the input consumed since the read began
\* and the first endlen end offsets are those of the delimiters consumed,
\* whatever the chunks and the growths were.
C29_ProducedIsKept ==
    ImplRunning =>
        /\ fut.outlen <= Len(fut.rec.fields) /\ fut.endlen <= Len(fut.rec.ends)
        /\ SubSeq(fut.rec.fields, 1, fut.outlen) = FieldBytes(Taken)
        /\ SubSeq(fut.rec.ends, 1, fut.endlen) = EndsOf(Taken)
\* C29: a step of a read in flight leaves what earlier invocations
\* produced in place, a growth included.
C29_NeverOverwritten ==
    (ImplRunning /\ fut'.op = fut.op /\ fut'.stage = fut.stage) =>
        /\ fut'.outlen >= fut.outlen /\ fut'.endlen >= fut.endlen
        /\ Len(fut'.rec.fields) >= Len(fut.rec.fields) /\ Len(fut'.rec.ends) >= Len(fut.rec.ends)
        /\ SubSeq(fut'.rec.fields, 1, fut.outlen) = SubSeq(fut.rec.fields, 1, fut.outlen)
        /\ SubSeq(fut'.rec.ends, 1, fut.endlen) = SubSeq(fut.rec.ends, 1, fut.endlen)
\* C29: the row a read returns has as many fields as end offsets were
\* produced over all its invocations, and its fields are those of the
\* input the read consumed.
C29_RowIsAllProduced ==
    (ImplRunning /\ fut.op \in RowReadOps /\ fut'.op = "none"
       /\ ret'.kind \in {"row", "width"} /\ ret'.rec.origin = fut.rec.origin) =>
        LET taken == SubSeq(data, fut.rec.origin + 1, rdr'.off)
        IN  /\ Len(ret'.rec.fields) = NumDelims(taken) + 1
            /\ Len(ret'.rec.fields) >= fut.endlen + 1
            /\ ret'.rec.fields = SplitFields(SelectSeq(taken, LAMBDA c : c # NL))
\* C29: output of earlier invocations of a row read is never overwritten,
\* growth preserves it, and the row returned is made of all of it, for
\* every chunking of the input.
C29_SpareCapacityOnly ==
    /\ []C29_ProducedIsKept
    /\ [][C29_NeverOverwritten /\ C29_RowIsAllProduced]_vars
\* A read in flight whose two stores both grew with output in them, and
\* which wrote more after the growth.
C29_Witness ==
    /\ ImplRunning /\ fut.op \in RowReadOps
    /\ Len(fut.rec.fields) = 8 /\ fut.outlen > 4
    /\ Len(fut.rec.ends) = 8 /\ fut.endlen = 4

\* ---------------------------------------------------------- full stores
\* C30 (growth): a step in which the tokenizer returns OutputFull grows
\* the field store and only it, one in which it returns OutputEndsFull
\* grows the end store and only it; the read stays in flight at the input
\* position the tokenizer stopped at.
C30_GrowsMatchingStore ==
    (ImplRunning /\ StepResult \in {"OutputFull", "OutputEndsFull"}) =>
        /\ fut'.op = fut.op /\ fut'.stage = fut.stage
        /\ rdr'.off >= rdr.off /\ state'.cur_pos.byte - state.cur_pos.byte = rdr'.off - rdr.off
        /\ IF StepResult = "OutputFull"
           THEN /\ Len(fut'.rec.fields) = Max({MinGrow, 2 * Len(fut.rec.fields)})
                /\ Len(fut'.rec.ends) = Len(fut.rec.ends)
           ELSE /\ Len(fut'.rec.ends) = Max({MinGrow, 2 * Len(fut.rec.ends)})
                /\ Len(fut'.rec.fields) = Len(fut.rec.fields)
\* C30 (as claimed): after OutputFull or OutputEndsFull unread bytes are
\* buffered, so the next invocation needs nothing from the byte source.
C30_NoAwaitStep ==
    (ImplRunning /\ StepResult \in {"OutputFull", "OutputEndsFull"}) => rdr'.off < rdr'.fill
\* C30 as claimed: the matching store grows and the tokenizer is invoked
\* again without the byte source being awaited.
C30_RegrowWithoutAwait == [][C30_GrowsMatchingStore /\ C30_NoAwaitStep]_vars
\* C30 (amended): after OutputFull unread bytes are buffered; after
\* OutputEndsFull either unread bytes are buffered, or the source is at its
\* end with a last row lacking its final end offset, and the byte source is
\* awaited once more and delivers nothing.
C30_AwaitOnlyAtEnd ==
    (ImplRunning /\ StepResult \in {"OutputFull", "OutputEndsFull"}) =>
        \/ rdr'.off < rdr'.fill
        \/ /\ StepResult = "OutputEndsFull"
           /\ rdr'.off = rdr'.fill /\ rdr'.fill >= Len(data) /\ rdr' = rdr
           /\ fut.endlen = Len(fut.rec.ends) /\ core'.dfa_state \notin {"StartRecord", "EndRecord"}
C30_RegrowAtSamePosition == [][C30_GrowsMatchingStore /\ C30_AwaitOnlyAtEnd]_vars
\* The end store grew at the end of the source: nothing is buffered and
\* the read in flight has to ask the byte source again.
C30_Witness ==
    /\ data = DataTrailing /\ ImplRunning /\ fut.op \in RowReadOps
    /\ rdr.off = rdr.fill /\ rdr.fill = Len(data)
    /\ core.dfa_state = "EndFieldDelim" /\ Len(fut.rec.ends) = 8 /\ fut.endlen = 4

\* ------------------------------------------------------ suspension points
\* A step in which the call in flight stays in flight without receiving or
\* consuming a byte.
WaitStep == fut.op # "none" /\ fut'.op = fut.op /\ rdr' = rdr
\* A step in which the caller drops the call in flight.
DropStep == fut.op # "none" /\ fut'.op = "none" /\ ret'.kind = "dropped"
\* A step in which the read of the source fails.
FailStep == fails' # fails
\* C31: a call that has not returned is inside read_byte_record_impl, at
\* the wait for bytes at the top of its loop.
C31_SuspendedAtFillBuf == ~Idle => ImplRunning
\* C31: bytes are consumed only by a step of a call in flight whose wait
\* resolved without failure, and never more than are buffered and unread
\* once the wait resolved.
C31_ConsumeAfterWait ==
    (rdr'.off # rdr.off /\ ~SeekCompletes) =>
        /\ ImplRunning /\ ~FailStep /\ ~DropStep
        /\ rdr'.off > rdr.off /\ rdr'.off <= rdr'.fill /\ rdr'.fill >= rdr.fill
\* C31: a wait that is pending, fails or is dropped changes neither the
\* tracked position, nor the flags, nor the header cache, nor the
\* tokenizer, nor the buffer.
C31_WaitChangesNothing ==
    (WaitStep \/ DropStep \/ FailStep) => state' = state /\ core' = core /\ rdr' = rdr
\* C31: the wait for bytes is the only suspension point, consume follows a
\* successful wait, and a pending wait leaves the reader as it was.
C31_OnlySuspensionPoint ==
    /\ []C31_SuspendedAtFillBuf
    /\ [][C31_ConsumeAfterWait /\ C31_WaitChangesNothing]_vars
\* A row read that was polled while the source had nothing ready: it is in
\* flight and has polled the source, yet its record has no store and
\* nothing was buffered or consumed.
C31_Witness ==
    /\ ImplRunning /\ fut.op \in RowReadOps /\ fut.polled
    /\ rdr.off = rdr.fill /\ rdr.fill < Len(data)
    /\ Len(fut.rec.fields) = 0 /\ rdr.off = fut.rec.origin /\ state.cur_pos.byte = rdr.off

\* ------------------------------------------------------------ I/O errors
\* The replay branch of read_byte_record is open: the next row read hands
\* out the cached header row instead of parsing.
ReplayOpen == ~state.seeked /\ ~state.has_headers /\ ~state.first /\ state.headers.some
\* C32: the step in which the source fails ends the row read or header
\* query in flight with an I/O error and changes nothing of the reader:
\* not eof, not the header cache, not the expected width, not the position;
\* the record of a row read is empty and carries the Position stamped when
\* the parser was entered, the tracked Position at the start of the call
\* when that was the call's first entry.
C32_FailureStep ==
    (FailStep /\ fut.op \in RowReadOps \cup HeaderOps) =>
        /\ fut'.op = "none" /\ ret'.op = fut.op /\ ret'.kind = "io"
        /\ state' = state /\ core' = core /\ rdr' = rdr
        /\ fut.op \in RowReadOps =>
              /\ ret'.rec.fields = <<>> /\ ret'.rec.pos = fut.rec.pos
              /\ fut.stage = "first" => ret'.rec.pos = fut.pos0
\* C32: after an I/O error eof is not set, and a row read called next
\* enters the parser at the byte the failed call stopped at, unless the
\* replay branch is open.
C32_NextReadParses ==
    (Idle /\ ret.kind = "io" /\ ret.op \in RowReadOps \cup HeaderOps) =>
        /\ ~state.eof
        /\ (fut'.op \in RowReadOps \/ (fut'.op = "none" /\ ret'.op \in RowReadOps /\ ret' # ret)) =>
              \/ ReplayOpen
              \/ /\ fut'.op \in RowReadOps /\ fut'.stage = "first"
                 /\ fut'.rec.origin = rdr.off /\ fut'.rec.pos = state.cur_pos
\* C32: a failure of the byte source is returned by the call in flight as
\* an I/O error and harms that call only.
C32_IoErrorIsLocal == [][C32_FailureStep /\ C32_NextReadParses]_vars
\* A row read failed in the middle of row 0: the record carries the
\* Position of the start, the tracked one is further, and neither eof, nor
\* the header cache, nor the expected width is set.
C32_Witness ==
    /\ Idle /\ ret.op \in RowReadOps /\ ret.kind = "io" /\ fails = 1
    /\ ret.rec.pos = NewPosition /\ state.cur_pos.byte > 0
    /\ ~state.eof /\ ~state.headers.some /\ state.first_field_count = -1 /\ ~state.first

\* ------------------------------------------------------------ termination
\* C33: a call in flight eventually returns.
C33_ReadsReturn == ~Idle ~> Idle
\* C33: eof is eventually set, and stays set.
C33_EofReached == <>[]state.eof
\* C33: the row reads that took a row, and the items of an adapter, are
\* never more than the rows of the input.
C33_FinitelyMany == nok + nerr <= NumRows(data) /\ stream.items <= NumRows(data)
\* C33: an adapter eventually yields the end.
C33_StreamEnds ==
    (stream.fut \in {"armed", "running"}) ~> (stream.fut = "none" /\ stream.last.kind = "end")
\* C33: on a finite input from a source that does not fail every row read
\* returns, eof is set after finitely many of them, and an adapter yields
\* finitely many items and then ends.
C33_Termination ==
    /\ C33_ReadsReturn /\ C33_EofReached /\ C33_StreamEnds /\ []C33_FinitelyMany
\* An adapter that yielded the three rows of the input and then the end.
C33_Witness ==
    /\ stream.fut = "none" /\ stream.last.kind = "end" /\ stream.items = 3
    /\ state.eof /\ Idle /\ NumRows(data) = 3

\* ------------------------------------------------- lazy, restartable adapters
\* This step drops an adapter that holds a read future it never polled.
DropStreamStep == stream.fut = "armed" /\ stream'.fut = "absent"

\* C34: dropping an adapter between two items changes nothing of the reader:
\* the read it armed never ran.
C34_DropConsumesNothing ==
    DropStreamStep => UNCHANGED <<core, rdr, state, fut, ret, nok, nerr, hist>>
\* C34: while an adapter holds a read future that was not polled and no read
\* of the source failed, the reader is idle and stands right after the row
\* the last row read took: the rows counted are one more than the index of
\* that row and every byte counted is a byte consumed, so the armed read
\* has taken nothing.
C34_ArmedNotStarted ==
    (stream.fut = "armed" /\ fails = 0) =>
        /\ Idle
        /\ hist.last.kind \in TakenKinds =>
              /\ state.cur_pos.record = hist.last.pos.record + 1
              /\ state.cur_pos.byte = rdr.off
              /\ ~state.eof
\* C34: the first item of an adapter made after another was dropped is the
\* physical row after the one the row read before it took, and the end if
\* that was the last row.
C34_NewAdapterContinues ==
    (stream.n > 1 /\ stream.ready = 1 /\ stream.fut \in {"armed", "none"} /\ fails = 0
        /\ hist.prev.kind \in TakenKinds) =>
        IF hist.prev.pos.record + 1 < NumRows(data)
        THEN /\ stream.last.kind \in TakenKinds
             /\ hist.last.pos.record = hist.prev.pos.record + 1
             /\ stream.last.kind = "row" =>
                   /\ IsPhysRow(stream.last.rec, hist.prev.pos.record + 1)
                   /\ stream.last.rec.fields = RowFields(data, hist.prev.pos.record + 1)
        ELSE stream.last.kind = "end"
\* C34: a stream adapter is lazy and restartable.
C34_LazyAndRestartable ==
    /\ [][C34_DropConsumesNothing]_vars
    /\ []C34_ArmedNotStarted
    /\ []C34_NewAdapterContinues
\* With has_headers=true an adapter handed out row 1 of the three-row input
\* and was dropped; a second adapter handed out row 2 as its first item.
C34_Witness ==
    /\ data = DataUnequal /\ state.has_headers /\ state.flexible /\ fails = 0
    /\ stream.n = 2 /\ stream.items = 1 /\ stream.fut = "armed"
    /\ stream.last.kind = "row" /\ IsPhysRow(stream.last.rec, 2)
    /\ hist.prev.kind = "row" /\ hist.prev.pos.record = 1 /\ nok = 2

\* ------------------------------------------------------ cached header queries
\* This step is a header query made with the header cache set: it starts on
\* an idle reader and a header query has returned when it ends.
CachedQueryStep ==
    /\ Idle /\ state.headers.some
    /\ fut'.op \in HeaderOps \/ (fut'.op = "none" /\ ret'.op \in HeaderOps)

\* C35: a header query made with the header cache set returns in the same
\* step without a read of the source, and leaves the buffer, the tokenizer
\* and all of ReaderState (Position, eof, first, seeked, expected width,
\* the cache itself) as they were.
C35_CachedQueryFrame ==
    CachedQueryStep =>
        /\ Idle' /\ ~ret'.polled
        /\ rdr' = rdr /\ core' = core /\ state' = state
        /\ ret'.kind \in {"headers", "utf8"}
\* C35: what it returns is the cached row, so that two queries with no
\* override between them return the same; headers() reports the cached
\* validation error when the row is not valid UTF-8.
C35_CachedQueryValue ==
    CachedQueryStep =>
        /\ ret'.kind = "headers" => ret'.rec = state.headers.byte_record
        /\ ret'.op = "byte_headers" => ret'.kind = "headers"
        /\ ret'.op = "headers" => (ret'.kind = "headers") = state.headers.string_record.ok
\* C35: once set, the header cache changes only by a manual override.
C35_CapturedOnce ==
    (state.headers.some /\ overrides' = overrides) => state'.headers = state.headers
\* C35: headers are captured from the source at most once.
C35_HeadersCapturedOnce ==
    /\ [][C35_CachedQueryFrame]_vars
    /\ [][C35_CachedQueryValue]_vars
    /\ [][C35_CapturedOnce]_vars
\* With has_headers=true a header query returned row 0 of the three-row
\* input from the cache after a row read had returned row 1: the reader
\* stands after row 1 and nothing was sought or overridden.
C35_Witness ==
    /\ data = DataUnequal /\ state.has_headers /\ NoSeek /\ NoOverride
    /\ HeadersReturned /\ ~ret.polled /\ ret.rec.fields = RowFields(data, 0)
    /\ nok = 1 /\ state.cur_pos.record = 2 /\ hist.last.kind = "row"

\* ------------------------------------------------------------ end of the rows
\* C36: when a row read has returned "no more rows", eof is set (is_done()
\* returns true) and no byte of the input is unread.
C36_EndMeansExhausted ==
    (RowReadReturned /\ ret.kind = "end") => (state.eof /\ rdr.off >= Len(data))

\* ------------------------------------------------- overrides and the row reads
\* C37: with no seek, whatever overrides were made, a row a row read takes
\* was parsed from the input, and the i-th read that takes a row takes the
\* physical row it would take had no override been made: row i with
\* has_headers=true, row i-1 without; "no more rows" comes when all of
\* them were taken.
C37_RowsAreParsedRows ==
    (NoSeek /\ RowReadReturned) =>
        /\ ret.kind \in {"row", "width"} =>
              /\ ret.rec.origin >= 0
              /\ IsPhysRow(ret.rec, IF state.has_headers THEN Consumed ELSE Consumed - 1)
        /\ ret.kind = "end" => Consumed = DataRows

\* ------------------------------------------------------ failing physical seek
\* This step is a seek or seek_raw returning the error of its physical seek.
SeekFailStep ==
    /\ fut.op \in SeekOps \cup {"none"}
    /\ fut'.op = "none" /\ ret'.op \in SeekOps /\ ret'.kind = "io"
    /\ seeks' + rawseeks' > seeks + rawseeks

\* C38: a seek whose physical seek fails leaves the reader as a
\* byte_headers call in its place would, but for seeked, which is set:
\* called with the header cache set it changes nothing else, and called
\* without it the header row is consumed into the cache and the tracked
\* Position, eof and the tokenizer stand where that read left them.
C38_FailedSeekFrame ==
    SeekFailStep =>
        \E n \in FillChoices :
            LET asq == [World EXCEPT !.fut = IF Idle THEN Frame("byte_headers")
                                              ELSE [fut EXCEPT !.op = "byte_headers"]]
                h == IF Idle THEN HdrTail(asq) ELSE Resume(data, asq, n)
            IN  /\ h.fut.op = "none" /\ h.ret.kind = "headers"
                /\ state' = [h.state EXCEPT !.seeked = TRUE]
                /\ core' = h.core
                /\ state'.headers.some
                /\ Idle => (state'.cur_pos = state.cur_pos /\ state'.eof = state.eof
                             /\ core' = core /\ state'.headers = state.headers)
\* C38: once seeked is set no row read replays the cached header: a row
\* read that returns in the step it is called in reports the end.
C38_NoReplayOnceSeeked ==
    (Idle /\ state.seeked /\ Idle' /\ ret'.op \in RowReadOps) => ret'.kind = "end"
\* C38: a failed physical seek.
C38_FailedPhysicalSeek ==
    /\ [][C38_FailedSeekFrame]_vars
    /\ [][C38_NoReplayOnceSeeked]_vars
\* With has_headers=false a seek to the end of the three-row input, the
\* first call on the reader, captured row 0 as the headers and returned
\* the error of the physical seek: seeked is set, first is not, the
\* tracked Position is that of row 1.
C38_Witness ==
    /\ data = DataUnequal /\ ~state.has_headers
    /\ Idle /\ ret.op = "seek" /\ ret.kind = "io" /\ ret.polled
    /\ ret.arg.byte = Len(data)
    /\ state.seeked /\ ~state.first /\ state.headers.some /\ ~state.eof
    /\ state.cur_pos = RowPos(data, 1)

\* --------------------------------------------------------- polls after the end
\* This step is a poll_next on an adapter whose fut is None.
PollAfterEndStep == stream.fut = "none" /\ stream'.fut \notin {"none", "absent"}

\* C39: an adapter that exists and has not handed out the end holds a read
\* future, armed or waiting for bytes; one that has handed out the end
\* holds none.
C39_FutureUntilEnd ==
    stream.fut # "absent" =>
        /\ stream.last.kind # "end" => stream.fut \in {"armed", "running"}
        /\ stream.last.kind = "end" => stream.fut \in {"none", "panicked"}
        /\ stream.fut \in {"armed", "running"} => stream.made = stream.ready + 1
\* C39: a poll of an adapter whose fut is None panics on the unwrap: it
\* hands out nothing, makes no future and does not touch the reader.
C39_PollAfterEndPanics ==
    PollAfterEndStep =>
        /\ stream'.fut = "panicked"
        /\ stream'.items = stream.items /\ stream'.last = stream.last
        /\ stream'.ready = stream.ready /\ stream'.made = stream.made
        /\ UNCHANGED <<core, rdr, state, fut, ret, hist>>
\* C39: after the end a stream adapter holds no read future and a further
\* poll is a panic; before it the adapter holds one at every poll.
C39_EndedStreamPanics ==
    /\ []C39_FutureUntilEnd
    /\ [][C39_PollAfterEndPanics]_vars
\* An adapter handed out rows 1 and 2 of the three-row input and the end,
\* and was polled once more.
C39_Witness ==
    /\ data = DataUnequal /\ state.has_headers /\ state.flexible /\ fails = 0
    /\ stream.fut = "panicked" /\ stream.last.kind = "end"
    /\ stream.items = 2 /\ stream.ready = 3 /\ stream.made = 3

\* ------------------------------------------------------- record index overflow
\* C40: the tracked record index is a value of its type.
C40_IndexInRange == state.cur_pos.record \in 0..RecordMax
\* C40: a step in which the tokenizer completes a row adds one to the
\* tracked record index, whether or not the row passes width validation;
\* with the index at its largest value the call panics instead, the index
\* and the expected width left as they were and no width error reported.
\* Any other step that does not complete a seek leaves the index alone.
C40_CountsCompletedRows ==
    \/ SeekCompletes
    \/ IF ImplRunning /\ fut' # fut /\ StepResult = "Record"
       THEN IF state.cur_pos.record = RecordMax
            THEN /\ Idle' /\ ret'.kind = "panic"
                 /\ state'.cur_pos.record = state.cur_pos.record
                 /\ state'.first_field_count = state.first_field_count
            ELSE /\ state'.cur_pos.record = state.cur_pos.record + 1
                 /\ Idle' => ret'.kind # "panic"
       ELSE /\ state'.cur_pos.record = state.cur_pos.record
            /\ Idle' => ret'.kind # "panic"
\* C40: the record index counts completed rows with an overflow check.
C40_CheckedIncrement ==
    /\ []C40_IndexInRange
    /\ [][C40_CountsCompletedRows]_vars
\* With flexible=false and the header of one field cached, a seek installed
\* the largest record index at the start of row 1 of the three-row input;
\* the row read that completed row 1, of two fields, panicked: no width
\* error, the index where it was.
C40_Witness ==
    /\ data = DataUnequal /\ ~state.flexible /\ state.first_field_count = 1
    /\ Idle /\ ret.op \in RowReadOps /\ ret.kind = "panic"
    /\ Len(ret.rec.fields) = 2 /\ ret.rec.pos.record = RecordMax
    /\ state.cur_pos.record = RecordMax /\ seeks = 1

====
